---- MODULE Spec2Model ----
(***************************************************************************)
(* Live Competitive Session Engine of qa_leadership (src/app.py).          *)
(*                                                                         *)
(* The store is one JSON document (data.json).  Every request handler      *)
(* loads the whole document, mutates the loaded copy and writes the whole  *)
(* document back.  `data` is the stored document, restricted to the one    *)
(* debate the handlers below are called for, to the points ledger and to   *)
(* the one quiz session its handlers are called for.                       *)
(* Members, the meeting and the debate's flow and rubric are edited by the *)
(* CRUD handlers only; they are fixed here.                                *)
(***************************************************************************)
EXTENDS Integers, Sequences, FiniteSets, TLC

VARIABLES
    data,   \* the stored document: [debate, points_entries, quiz_sessions]
    last,   \* the last request served and its response
    now,    \* the wall clock, int(time.time())
    req     \* requests in flight (load done, save pending), for the interleaved runs

vars == <<data, last, now, req>>

\* ------------------------------------------------------------------ bounds

\* A public vote is only enumerated while the tally it adds to is below this.
MaxTally == 2
\* The clock stops advancing here.
MaxTime == 1
\* An answer is only enumerated while the player's score, in thousandths, is
\* within this of zero.
MaxScore == 3000
\* The clock steps between the opening of a question and an answer scored on its own.
MaxElapsed == 4
\* The longest list answer graded on its own.
MaxAnswerLen == 3
\* The players of a leaderboard computed on its own.
MaxPlayers == 3
\* The candidates that have registered for the debate before an assignment.
MaxSignups == 5

\* ------------------------------------------------------------------ dict helpers

\* {} : the empty dict
EmptyMap == [k \in {} |-> 0]

\* d.get(k) or dflt   /   d.get(k, dflt)
Get(d, k, dflt) == IF k \in DOMAIN d THEN d[k] ELSE dflt

\* d[k] = v
Put(d, k, v) == [x \in (DOMAIN d) \cup {k} |-> IF x = k THEN v ELSE d[x]]

\* max(a, b), min(a, b)
Max(a, b) == IF a >= b THEN a ELSE b
Min(a, b) == IF a <= b THEN a ELSE b

\* the elements of a list
Range(s) == {s[i] : i \in 1..Len(s)}

RECURSIVE SumOver(_, _)
\* sum(f[k] for k in S)
SumOver(f, S) ==
    IF S = {} THEN 0
    ELSE LET k == CHOOSE x \in S : TRUE IN f[k] + SumOver(f, S \ {k})

\* ------------------------------------------------------------------ the fixed part of the document

\* (s or "").strip().lower() on the addresses that occur here
Lower(e) ==
    CASE e = "V1" -> "v1"
      [] e = "V2" -> "v2"
      [] e = "J1" -> "j1"
      [] OTHER -> e

\* str(step): the key of a step in scores.jury / scores.public
StrOf(step) ==
    CASE step = 0 -> "0"
      [] step = 1 -> "1"
      [] step = 2 -> "2"
      [] OTHER -> "3"

\* debate["id"]
DebateId == 1

\* data["members"]: email, external flag and studio tag as typed in (j2, x1, x2
\* and the public are no members)
Members == <<
    [email |-> "m1", external |-> FALSE, studio |-> "CC"],
    [email |-> "m2", external |-> TRUE,  studio |-> "wsop"],
    [email |-> "j1", external |-> FALSE, studio |-> ""],
    [email |-> "a1", external |-> FALSE, studio |-> "CC"] >>

\* meeting["participants"] of the meeting the debate is tied to (x1 is not invited)
Participants == << "v1", "V2", "j1", "m1", "j2", "m2" >>

\* debate["flow"]: steps 0..2
Flow == <<
    [action |-> "simple_jury+public", round |-> "1"],
    [action |-> "public_vote",      round |-> "1"],
    [action |-> "jury_vote",        round |-> "1"] >>

\* debate["rubric"]
Rubric == <<
    [key |-> "c1", min |-> 0, max |-> 10, type |-> "general", round |-> "1"],
    [key |-> "c2", min |-> 0, max |-> 5,  type |-> "round",   round |-> "2"] >>

\* POINTS_CONFIG
PointsConfig(criteria) ==
    CASE criteria = "meeting_attendance" -> 5
      [] criteria = "presentation" -> 15
      [] criteria = "debate_participant" -> 5
      [] criteria = "debate_winner" -> 15
      [] OTHER -> 0

\* ------------------------------------------------------------------ request inputs

\* form field "email" of the public vote page
VoterInputs == {"v1", "V2", "j1", "m1", "x1", ""}
\* those of them the handler lets vote
EligibleInputs == {"v1", "V2"}
\* form field "team_id" of the public vote page
TeamInputs == {"t1", "t2", "_voters", ""}
\* query parameter "step"
StepInputs == 0..3
\* form field "email" of the jury page
JudgeInputs == {"J1", "j2", "v1"}
\* those of them in the jury
JurorInputs == {"J1", "j2"}
\* form field "team_choice" of the jury page
ChoiceInputs == {"t1", "t2", ""}
\* form fields "<team>__<crit>" of the jury page
RawInputs == {"", "4", "12"}

\* ------------------------------------------------------------------ responses

MsgRecorded == "Vote recorded. Thank you!"
MsgFill == "Please fill in email + team choice."
MsgNotInvited == "Email is not invited to this meeting."
MsgJury == "Jury members cannot vote as public."
MsgTeam == "Team members cannot vote as public."
MsgNotJuror == "Email is not in the jury for this debate."
MsgInvalidStep == "Invalid step"
MsgNotPublic == "Not a public vote step"
MsgNotJuryStep == "Not a jury vote step"
MsgError == "Error"

\* ------------------------------------------------------------------ the stored document

\* "started_at": None
None == -1

\* the debate as POST /api/debates and the live editor leave it: two judges, two
\* teams, no votes yet
InitDebate == [
    status   |-> "planned",
    live     |-> [active |-> FALSE, started_at |-> None],
    judges   |-> << "j1", "j2" >>,
    teams    |-> << [id |-> "t1", name |-> "Team 1", members |-> << "m1" >>],
                    [id |-> "t2", name |-> "Team 2", members |-> << "m2" >>] >>,
    reserves |-> << >>,
    format   |-> [team_count |-> 2, team_size |-> 2, judge_count |-> 2],
    signups  |-> EmptyMap,
    scores   |-> [jury |-> EmptyMap, public |-> EmptyMap] ]

InitData == [debate |-> InitDebate, points_entries |-> << >>, quiz_sessions |-> << >>]

\* the response of a handler, with the request fields it consumed
Response(op, email, step, team, form, msg) ==
    [op |-> op, email |-> email, step |-> step, team |-> team, form |-> form, msg |-> msg]

\* a jury form with every field left empty
EmptyForm == [t \in {"t1", "t2"} |-> ""]

NoRequest == Response("none", "", 0, "", EmptyForm, "")

\* ------------------------------------------------------------------ public vote

\* _participants_by_email_map(meeting): the keys of the map
InvitedEmails ==
    {Lower(Participants[i]) : i \in 1..Len(Participants)} \ {""}

\* any(email in t["members"] for t in debate["teams"])
IsTeamMember(debate, email) ==
    \E i \in 1..Len(debate.teams) : email \in Range(debate.teams[i].members)

\* PublicVoteUpdate without lines 1171-1173: the previous choice keeps its vote
PublicVoteUpdateNoMove(step_map, email, team_id) ==
    LET voters == Get(step_map, "_voters", EmptyMap)
        marked == Put(step_map, "_voters", Put(voters, email, team_id))
    IN  Put(marked, team_id, Get(marked, team_id, 0) + 1)

\* lines 1168-1176: the voter's entry and the tallies of one step
PublicVoteUpdate(step_map, email, team_id) ==
    LET voters == Get(step_map, "_voters", EmptyMap)
        prev == Get(voters, email, "")
        moved == IF prev # "" /\ prev # team_id
                 THEN Put(step_map, prev, Max(0, Get(step_map, prev, 1) - 1))
                 ELSE step_map
        marked == Put(moved, "_voters", Put(voters, email, team_id))
    IN  Put(marked, team_id, Get(marked, team_id, 0) + 1)

\* VoterRejection without the jury check of line 1161
VoterRejectionNoJudges(debate, email) ==
    IF email \notin InvitedEmails THEN MsgNotInvited
    ELSE IF IsTeamMember(debate, email) THEN MsgTeam
    ELSE ""

\* lines 1157-1164: why the voter may not vote ("" when the voter may)
VoterRejection(debate, email) ==
    IF email \notin InvitedEmails THEN MsgNotInvited
    ELSE IF email \in Range(debate.judges) THEN MsgJury
    ELSE IF IsTeamMember(debate, email) THEN MsgTeam
    ELSE ""

\* what a handler did: the document it built, whether it saved it, its response
Outcome(doc, saved, resp) == [doc |-> doc, saved |-> saved, resp |-> resp]

\* public_vote_page, POST
public_vote_page(doc, email_in, team_in, step) ==
    LET debate == doc.debate
        email == Lower(email_in)
        team_id == team_in
        pub == debate.scores.public
        step_map == Get(pub, StrOf(step), EmptyMap)
        voted == [doc EXCEPT !.debate.scores.public =
                     Put(pub, StrOf(step), PublicVoteUpdate(step_map, email, team_id))]
        answer(e, t, msg) == Response("public_vote", e, step, t, EmptyForm, msg)
    IN  IF step < 0 \/ step >= Len(Flow)
        THEN Outcome(doc, FALSE, answer("", "", MsgInvalidStep))
        ELSE IF Flow[step + 1].action \notin {"public_vote", "jury+public", "simple_jury+public"}
        THEN Outcome(doc, FALSE, answer("", "", MsgNotPublic))
        ELSE IF email = "" \/ team_id = ""
        THEN Outcome(doc, FALSE, answer(email, "", MsgFill))
        ELSE IF VoterRejection(debate, email) # ""
        THEN Outcome(doc, FALSE, answer(email, "", VoterRejection(debate, email)))
        ELSE IF team_id = "_voters"
        \* int(step_map["_voters"]) raises: the handler answers 500 and saves nothing
        THEN Outcome(doc, FALSE, answer(email, team_id, MsgError))
        ELSE Outcome(voted, TRUE, answer(email, team_id, MsgRecorded))

\* the tally a vote for team_id on step would add to, in the stored document
TallyOf(doc, step, team_id) ==
    LET step_map == Get(doc.debate.scores.public, StrOf(step), EmptyMap)
    IN  IF team_id \in DOMAIN step_map /\ team_id # "_voters" THEN step_map[team_id] ELSE 0

\* POST /debates/<did>/vote, served without interleaving
PublicVote(email_in, team_in, step) ==
    /\ LET r == public_vote_page(data, email_in, team_in, step)
       IN  /\ r.saved => TallyOf(data, step, team_in) < MaxTally
           /\ data' = IF r.saved THEN r.doc ELSE data
           /\ last' = r.resp
    /\ UNCHANGED <<now, req>>

\* ------------------------------------------------------------------ jury vote

\* debate["teams"]: the ids, in order
TeamIds(debate) == [i \in 1..Len(debate.teams) |-> debate.teams[i].id]

\* lines 1249-1254: the general criteria and those of the step's round
StepRubric(step) ==
    SelectSeq(Rubric, LAMBDA c :
        c.type = "general" \/ (c.type = "round" /\ c.round = Flow[step + 1].round))

\* line 1257
is_simple_vote(step) ==
    Flow[step + 1].action \in {"simple_jury_vote", "simple_jury+public"}

\* line 1258
has_rubric(step) ==
    /\ ~is_simple_vote(step)
    /\ \E c \in Range(StepRubric(step)) : c.min # None /\ c.max # None

\* float(raw): ok is FALSE where float() raises
ParseFloat(raw) ==
    CASE raw = "4" -> [ok |-> TRUE, val |-> 4]
      [] raw = "12" -> [ok |-> TRUE, val |-> 12]
      [] OTHER -> [ok |-> FALSE, val |-> 0]

\* request.form.get(f"{t_id}__{key}", ""): the forms enumerated fill criterion c1 only
FormField(form, t_id, key) ==
    IF key = "c1" /\ t_id \in DOMAIN form THEN form[t_id] ELSE ""

\* line 1290: clamp between min/max
Clamp(c, val) == Max(c.min, Min(c.max, val))

\* lines 1275-1291: the judge's record of a rubric step
RubricJudgeMap(debate, step, form) ==
    LET rubric == Range(StepRubric(step))
        given(t_id) == {c \in rubric : FormField(form, t_id, c.key) # ""
                                       /\ ParseFloat(FormField(form, t_id, c.key)).ok}
        scored == {t_id \in Range(TeamIds(debate)) : given(t_id) # {}}
    IN  [t_id \in scored |->
            [key \in {c.key : c \in given(t_id)} |->
                LET c == CHOOSE x \in given(t_id) : x.key = key
                IN  Clamp(c, ParseFloat(FormField(form, t_id, key)).val)]]

\* lines 1294-1296: the judge's record of a simple step
SimpleJudgeMap(debate, team_choice) ==
    IF team_choice \in Range(TeamIds(debate))
    THEN [t_id \in {team_choice} |-> [key \in {"default"} |-> 1]]
    ELSE EmptyMap

\* IsJuror testing the meeting's invite list instead of debate["judges"]
IsJurorInvited(debate, email) == email \in InvitedEmails

\* line 1264: the email must be in the jury
IsJuror(debate, email) == email \in Range(debate.judges)

\* StoreJudgeMap merging the new record into the judge's previous one
StoreJudgeMapMerged(step_map, email, judge_map) ==
    LET old == Get(step_map, email, EmptyMap)
    IN  Put(step_map, email,
            [t \in (DOMAIN old) \cup (DOMAIN judge_map) |->
                IF t \in DOMAIN judge_map THEN judge_map[t] ELSE old[t]])

\* line 1299: step_map[email] = judge_map
StoreJudgeMap(step_map, email, judge_map) == Put(step_map, email, judge_map)

\* jury_vote_page, POST
jury_vote_page(doc, email_in, team_choice, form, step) ==
    LET debate == doc.debate
        email == Lower(email_in)
        jury == debate.scores.jury
        step_map == Get(jury, StrOf(step), EmptyMap)
        judge_map == IF has_rubric(step)
                     THEN RubricJudgeMap(debate, step, form)
                     ELSE SimpleJudgeMap(debate, team_choice)
        voted == [doc EXCEPT !.debate.scores.jury =
                     Put(jury, StrOf(step), StoreJudgeMap(step_map, email, judge_map))]
        answer(e, t, f, msg) == Response("jury_vote", e, step, t, f, msg)
    IN  IF step < 0 \/ step >= Len(Flow)
        THEN Outcome(doc, FALSE, answer("", "", EmptyForm, MsgInvalidStep))
        ELSE IF Flow[step + 1].action \notin
                    {"jury_vote", "jury+public", "simple_jury_vote", "simple_jury+public"}
        THEN Outcome(doc, FALSE, answer("", "", EmptyForm, MsgNotJuryStep))
        ELSE IF ~IsJuror(debate, email)
        THEN Outcome(doc, FALSE, answer(email, "", EmptyForm, MsgNotJuror))
        ELSE IF has_rubric(step)
        THEN Outcome(voted, TRUE, answer(email, "", form, MsgRecorded))
        ELSE Outcome(voted, TRUE, answer(email, team_choice, EmptyForm, MsgRecorded))

\* POST /debates/<did>/jury, served without interleaving
JuryVote(email_in, team_choice, form, step) ==
    /\ LET r == jury_vote_page(data, email_in, team_choice, form, step)
       IN  /\ data' = IF r.saved THEN r.doc ELSE data
           /\ last' = r.resp
    /\ UNCHANGED <<now, req>>

\* the rubric forms enumerated
Forms == [{"t1", "t2"} -> RawInputs]

\* ------------------------------------------------------------------ score aggregation

\* the keys of a step's public map that are tallies
TallyKeys(step_map) == (DOMAIN step_map) \ {"_voters"}

RECURSIVE AddCrits(_, _, _)
\* lines 678-691: one judge's record added to the totals, team by team
AddCrits(totals, judge_map, team_ids) ==
    IF team_ids = {} THEN totals
    ELSE LET team_id == CHOOSE t \in team_ids : TRUE
             crits == judge_map[team_id]
             gain == IF "default" \in DOMAIN crits
                     THEN crits["default"]
                     ELSE SumOver(crits, DOMAIN crits)
         IN  AddCrits(Put(totals, team_id, Get(totals, team_id, 0) + gain),
                      judge_map, team_ids \ {team_id})

RECURSIVE AddJudges(_, _, _)
\* line 677: the judges of one step
AddJudges(totals, step_map, judges) ==
    IF judges = {} THEN totals
    ELSE LET j == CHOOSE x \in judges : TRUE
         IN  AddJudges(AddCrits(totals, step_map[j], DOMAIN step_map[j]),
                       step_map, judges \ {j})

RECURSIVE AddJurySteps(_, _, _)
\* line 676: the steps of scores.jury
AddJurySteps(totals, jury, steps) ==
    IF steps = {} THEN totals
    ELSE LET s == CHOOSE x \in steps : TRUE
         IN  AddJurySteps(AddJudges(totals, jury[s], DOMAIN jury[s]), jury, steps \ {s})

RECURSIVE AddStepWinnersVotes(_, _, _, _)
\* AddStepWinners adding the step's votes instead of one point
AddStepWinnersVotes(totals, step_map, keys, max_votes) ==
    IF keys = {} THEN totals
    ELSE LET team_id == CHOOSE t \in keys : TRUE
             next == IF step_map[team_id] = max_votes
                     THEN Put(totals, team_id, Get(totals, team_id, 0) + step_map[team_id])
                     ELSE totals
         IN  AddStepWinnersVotes(next, step_map, keys \ {team_id}, max_votes)

RECURSIVE AddStepWinners(_, _, _, _)
\* lines 712-714: one point to every team with max_votes
AddStepWinners(totals, step_map, keys, max_votes) ==
    IF keys = {} THEN totals
    ELSE LET team_id == CHOOSE t \in keys : TRUE
             next == IF step_map[team_id] = max_votes
                     THEN Put(totals, team_id, Get(totals, team_id, 0) + 1)
                     ELSE totals
         IN  AddStepWinners(next, step_map, keys \ {team_id}, max_votes)

\* lines 695-714: the point of one public step
AddPublicStep(totals, step_map) ==
    LET keys == TallyKeys(step_map)
        max_votes == CHOOSE m \in {step_map[k] : k \in keys} :
                         \A k \in keys : step_map[k] <= m
    IN  IF keys = {} THEN totals
        ELSE IF max_votes > 0
        THEN AddStepWinners(totals, step_map, keys, max_votes)
        ELSE totals

RECURSIVE AddPublicSteps(_, _, _)
\* line 694: the steps of scores.public
AddPublicSteps(totals, public, steps) ==
    IF steps = {} THEN totals
    ELSE LET s == CHOOSE x \in steps : TRUE
         IN  AddPublicSteps(AddPublicStep(totals, public[s]), public, steps \ {s})

\* lines 668-672: the totals start at 0.0 for every team that has an id
InitTotalsNone(debate) == EmptyMap

InitTotals(debate) == [t \in Range(TeamIds(debate)) \ {""} |-> 0]

\* _compute_totals(debate); `debate.get("scores") or {}` and `scores.get(..) or {}`
\* read a missing key as an empty map
compute_totals(debate) ==
    LET zero == InitTotals(debate)
        scores == IF "scores" \in DOMAIN debate THEN debate.scores ELSE EmptyMap
        jury == Get(scores, "jury", EmptyMap)
        public == Get(scores, "public", EmptyMap)
        with_jury == AddJurySteps(zero, jury, DOMAIN jury)
    IN  AddPublicSteps(with_jury, public, DOMAIN public)

\* ------------------------------------------------------------------ rewards

\* _member_by_email(data, email): the first member with that address, as a set
member_by_email(email) ==
    LET hits == {i \in 1..Len(Members) : Lower(Members[i].email) = Lower(email)}
    IN  IF hits = {} THEN {}
        ELSE {Members[CHOOSE i \in hits : \A j \in hits : i <= j]}

\* add_automatic_points without the look-up of an entry already awarded
add_automatic_points_unchecked(entries, member_email, criteria, debate_id) ==
    LET member == member_by_email(member_email)
    IN  IF member = {} THEN entries
        ELSE IF \E m \in member : m.external THEN entries
        ELSE Append(entries, [member_email |-> member_email,
                              points |-> PointsConfig(criteria),
                              criteria |-> criteria,
                              debate_id |-> debate_id])

\* add_automatic_points(member_email, criteria, reason, debate_id=...): the ledger after it
add_automatic_points(entries, member_email, criteria, debate_id) ==
    LET member == member_by_email(member_email)
        existing == {i \in 1..Len(entries) :
                        /\ entries[i].member_email = member_email
                        /\ entries[i].criteria = criteria
                        /\ entries[i].debate_id = debate_id}
    IN  IF member = {} THEN entries
        ELSE IF \E m \in member : m.external THEN entries
        ELSE IF existing # {} THEN entries
        ELSE Append(entries, [member_email |-> member_email,
                              points |-> PointsConfig(criteria),
                              criteria |-> criteria,
                              debate_id |-> debate_id])

\* lines 1852-1867: a team's total as the reward attribution computes it
AwardTeamTotal(debate, team_id) ==
    LET jury == debate.scores.jury
        public == debate.scores.public
        cells == UNION {{<<s, j>> : j \in {x \in DOMAIN jury[s] : team_id \in DOMAIN jury[s][x]}} :
                            s \in DOMAIN jury}
        jury_gain == [c \in cells |->
                        LET crits == jury[c[1]][c[2]][team_id]
                        IN  IF "default" \in DOMAIN crits THEN crits["default"]
                            ELSE SumOver(crits, DOMAIN crits)]
        steps == {s \in DOMAIN public : team_id \in DOMAIN public[s]}
        public_gain == [s \in steps |-> public[s][team_id]]
    IN  SumOver(jury_gain, cells) + SumOver(public_gain, steps)

\* lines 1842-1873: winning_team_ids
WinningTeamIds(debate) ==
    LET ids == Range(TeamIds(debate))
    IN  IF debate.status # "finished" THEN {}
        ELSE {t \in ids : \A u \in ids : AwardTeamTotal(debate, u) <= AwardTeamTotal(debate, t)}

\* the members of the teams chosen by keep, in list order
RECURSIVE MembersOf(_, _)
MembersOf(teams, winning) ==
    IF teams = << >> THEN << >>
    ELSE (IF Head(teams).id \in winning THEN Head(teams).members ELSE << >>)
         \o MembersOf(Tail(teams), winning)

RECURSIVE AwardAll(_, _, _, _)
\* add_automatic_points for each address of a list, in order
AwardAll(entries, emails, criteria, debate_id) ==
    IF emails = << >> THEN entries
    ELSE AwardAll(
            IF Head(emails) = "" THEN entries
            ELSE add_automatic_points(entries, Lower(Head(emails)), criteria, debate_id),
            Tail(emails), criteria, debate_id)

RECURSIVE BadgeAll(_, _, _)
\* lines 1911-1942: a 0-point debate_winner entry for each winner not yet holding one
BadgeAll(entries, emails, debate_id) ==
    IF emails = << >> THEN entries
    ELSE LET email_lower == Lower(Head(emails))
             existing == \E i \in 1..Len(entries) :
                            /\ entries[i].member_email = email_lower
                            /\ entries[i].criteria = "debate_winner"
                            /\ entries[i].debate_id = debate_id
             next == IF Head(emails) = "" \/ existing THEN entries
                     ELSE Append(entries, [member_email |-> email_lower,
                                           points |-> 0,
                                           criteria |-> "debate_winner",
                                           debate_id |-> debate_id])
         IN  BadgeAll(next, Tail(emails), debate_id)

\* award_debate_points(debate): the ledger after it
award_debate_points(entries, debate) ==
    LET winning == WinningTeamIds(debate)
        all_ids == Range(TeamIds(debate))
        winners == MembersOf(debate.teams, winning)
        winning_member_emails == {Lower(e) : e \in Range(winners) \ {""}}
        others == SelectSeq(MembersOf(debate.teams, all_ids),
                            LAMBDA e : Lower(e) \notin winning_member_emails)
        after_teams == AwardAll(entries, others, "debate_participant", DebateId)
        after_judges == AwardAll(after_teams, debate.judges, "debate_participant", DebateId)
    IN  IF debate.status = "finished" /\ winning # {}
        THEN BadgeAll(after_judges, winners, DebateId)
        ELSE after_judges

\* ------------------------------------------------------------------ live state

\* _ensure_live_shape(debate): setdefault on both keys; POST /api/debates stores every
\* debate with both, so the stored value of each is kept
ensure_live_shape(debate) ==
    [debate EXCEPT !.live = [active |-> debate.live.active,
                             started_at |-> debate.live.started_at]]

\* live_page: a planned debate is marked live when its page is opened
LivePage ==
    /\ IF data.debate.status \notin {"live", "finished"}
       THEN data' = [data EXCEPT
                !.debate.status = "live",
                !.debate.live.active = TRUE,
                !.debate.live.started_at =
                    IF data.debate.live.started_at # None /\ data.debate.live.started_at # 0
                    THEN data.debate.live.started_at ELSE now]
       ELSE data' = data
    /\ last' = Response("live_page", "", 0, "", EmptyForm, "ok")
    /\ UNCHANGED <<now, req>>

\* lines 1409-1412: live_start marks the debate live and active together
StartedDebate(debate, t) ==
    [ensure_live_shape(debate) EXCEPT
        !.live.active = TRUE,
        !.live.started_at = t,
        !.status = "live"]

\* StoppedDebate leaving the live flag as it was
StoppedDebateStatusOnly(debate) ==
    [ensure_live_shape(debate) EXCEPT !.status = "finished"]

\* lines 1429-1431: live_stop marks the debate finished and inactive together
StoppedDebate(debate) ==
    [ensure_live_shape(debate) EXCEPT
        !.live.active = FALSE,
        !.status = "finished"]

\* live_start
LiveStart ==
    /\ data' = [data EXCEPT !.debate = StartedDebate(data.debate, now)]
    /\ last' = Response("live_start", "", 0, "", EmptyForm, "ok")
    /\ UNCHANGED <<now, req>>

\* live_stop, with the reward attribution it calls after saving
LiveStop ==
    /\ LET d == StoppedDebate(data.debate)
       IN  data' = [data EXCEPT
                !.debate = d,
                !.points_entries = award_debate_points(data.points_entries, d)]
    /\ last' = Response("live_stop", "", 0, "", EmptyForm, "ok")
    /\ UNCHANGED <<now, req>>

\* live_scores up to its response: the loaded debate, shaped in memory, is only
\* read; the handler never calls save_data
live_scores_saving(doc) ==
    LET d == ensure_live_shape(doc.debate)
        active == d.live.active
    IN  Outcome([doc EXCEPT !.debate = [d EXCEPT !.scores = [jury |-> EmptyMap, public |-> EmptyMap]]],
                TRUE,
                [op |-> "live_scores", email |-> "", step |-> 0, team |-> "",
                 form |-> EmptyForm, msg |-> IF active THEN "active" ELSE "inactive",
                 totals |-> IF active THEN compute_totals(d) ELSE EmptyMap,
                 scores |-> IF active THEN d.scores ELSE EmptyMap])

live_scores(doc) ==
    LET d == ensure_live_shape(doc.debate)
        active == d.live.active
    IN  Outcome([doc EXCEPT !.debate = d], FALSE,
                [op |-> "live_scores", email |-> "", step |-> 0, team |-> "",
                 form |-> EmptyForm, msg |-> IF active THEN "active" ELSE "inactive",
                 totals |-> IF active THEN compute_totals(d) ELSE EmptyMap,
                 scores |-> IF active THEN d.scores ELSE EmptyMap])

\* live_scores: the totals shown while the debate is live
LiveScores ==
    /\ LET o == live_scores(data)
       IN  /\ data' = IF o.saved THEN o.doc ELSE data
           /\ last' = o.resp
    /\ UNCHANGED <<now, req>>

\* time passes
Tick ==
    /\ now < MaxTime
    /\ now' = now + 1
    /\ UNCHANGED <<data, last, req>>

\* ------------------------------------------------------------------ quiz sessions

\* (payload.get("action") or "").lower() on the actions that occur here
LowerAction(a) ==
    CASE a = "START" -> "start"
      [] a = "Next" -> "next"
      [] OTHER -> a

\* the id of the one session, and its str()
SessionId == 1

\* one clock step in the milliseconds of int(time.time() * 1000)
TickMs == 500

\* int(time.time() * 1000); it is never 0
NowMs == (now + 1) * TickMs

\* data["quizzes"]: quiz 1 has a single-choice and an order question, quiz 2 has no
\* question.  Points are in thousandths (the handlers round to 3 decimals); a
\* field a question does not carry is None.
Quizzes == <<
    [id |-> 1, time_per_question |-> None,
     questions |-> <<
        [type |-> "single", correct |-> "a", order |-> << >>, map |-> EmptyMap,
         points |-> 2000, time_sec |-> 1, penalty_points |-> None],
        [type |-> "order", correct |-> "", order |-> << "a", "b" >>, map |-> EmptyMap,
         points |-> 1000, time_sec |-> 1, penalty_points |-> 250] >>],
    [id |-> 2, time_per_question |-> None, questions |-> << >>] >>

\* the quiz ids a session is created for
QuizIdInputs == {1, 2}
\* the actions posted to the control route
ActionInputs == {"start", "next", "reveal", "end", "START", "Next", "pause", ""}
\* the session ids a request may name
SidInputs == {1, 2}

\* next((q for q in data["quizzes"] if str(q["id"]) == str(quiz_id)), None)
QuizOf(quiz_id) ==
    IF \E i \in 1..Len(Quizzes) : Quizzes[i].id = quiz_id
    THEN Quizzes[CHOOSE i \in 1..Len(Quizzes) :
                    /\ Quizzes[i].id = quiz_id
                    /\ \A j \in 1..(i - 1) : Quizzes[j].id # quiz_id]
    ELSE [id |-> None, time_per_question |-> None, questions |-> << >>]

\* the position in data["quiz_sessions"] of the first session with this id, 0 if none
SessionIndex(doc, sid) ==
    IF \E i \in 1..Len(doc.quiz_sessions) : doc.quiz_sessions[i].id = sid
    THEN CHOOSE i \in 1..Len(doc.quiz_sessions) :
            /\ doc.quiz_sessions[i].id = sid
            /\ \A j \in 1..(i - 1) : doc.quiz_sessions[j].id # sid
    ELSE 0

\* lines 3048-3059: the session POST /api/quiz-sessions stores; it has no
\* q_started_at yet
NewSession(quiz_id) == [
    id            |-> SessionId,
    quiz_id       |-> quiz_id,
    status        |-> "waiting",
    phase         |-> "waiting",
    current_index |-> -1,
    reveal        |-> FALSE,
    players       |-> EmptyMap,
    answers       |-> EmptyMap,
    q_started_at  |-> None ]

\* the response of a quiz handler, with the request fields it consumed
QuizResponse(op, action, pid, code, body) ==
    [op |-> op, action |-> action, pid |-> pid, code |-> code, body |-> body]

\* POST /api/quiz-sessions, for the first session of the document
QuizCreate(quiz_id) ==
    /\ data.quiz_sessions = << >>
    /\ data' = [data EXCEPT !.quiz_sessions = Append(@, NewSession(quiz_id))]
    /\ last' = QuizResponse("quiz_create", "", "", 200, "created")
    /\ UNCHANGED <<now, req>>

\* ControlEnd also rewinding the session
ControlEndRewind(sess) == [sess EXCEPT !.status = "finished", !.current_index = -1]

\* ControlNext always taking the branch that advances
ControlNextAdvancing(sess, total_q, now_ms) ==
    IF sess.current_index + 1 < total_q
    THEN [sess EXCEPT
            !.current_index = sess.current_index + 1,
            !.reveal = FALSE,
            !.status = "running",
            !.phase = "question",
            !.q_started_at = now_ms,
            !.answers = Put(@, StrOf(sess.current_index + 1), EmptyMap)]
    ELSE [sess EXCEPT !.status = "finished", !.phase = "leaderboard"]

\* ControlNext leaving the question clock as it was
ControlNextStaleClock(sess, total_q, now_ms) ==
    IF sess.phase = "question"
    THEN [sess EXCEPT !.phase = "leaderboard", !.reveal = TRUE, !.status = "reveal"]
    ELSE IF sess.current_index + 1 < total_q
    THEN [sess EXCEPT
            !.current_index = sess.current_index + 1,
            !.reveal = FALSE,
            !.status = "running",
            !.phase = "question",
            !.answers = Put(@, StrOf(sess.current_index + 1), EmptyMap)]
    ELSE [sess EXCEPT !.status = "finished", !.phase = "leaderboard"]

\* lines 3174-3179: start
ControlStart(sess, total_q, now_ms) ==
    [sess EXCEPT
        !.status = "running",
        !.current_index = IF total_q > 0 THEN 0 ELSE -1,
        !.reveal = FALSE,
        !.phase = "question",
        !.q_started_at = now_ms]

\* lines 3180-3198: next
ControlNext(sess, total_q, now_ms) ==
    IF sess.phase = "question"
    THEN [sess EXCEPT !.phase = "leaderboard", !.reveal = TRUE, !.status = "reveal"]
    ELSE LET ci == sess.current_index + 1
         IN  IF ci < total_q
             THEN [sess EXCEPT
                     !.current_index = ci,
                     !.reveal = FALSE,
                     !.status = "running",
                     !.phase = "question",
                     !.q_started_at = now_ms,
                     !.answers = Put(@, StrOf(ci), EmptyMap)]
             ELSE [sess EXCEPT !.status = "finished", !.phase = "leaderboard"]

\* lines 3199-3202: reveal
ControlReveal(sess) ==
    [sess EXCEPT !.reveal = TRUE, !.status = "reveal", !.phase = "leaderboard"]

\* lines 3203-3204: end
ControlEnd(sess) == [sess EXCEPT !.status = "finished"]

\* every action taken for a known one
KnownActionAny(action) == TRUE

\* lines 3174-3206: the actions the control route has a branch for
KnownAction(action) == action \in {"start", "next", "reveal", "end"}

\* quiz_control
quiz_control(doc, sid, action_in, now_ms) ==
    LET i == SessionIndex(doc, sid)
        action == LowerAction(action_in)
    IN  IF i = 0
        THEN Outcome(doc, FALSE, QuizResponse("quiz_control", action, "", 404, "Session not found"))
        ELSE LET sess == doc.quiz_sessions[i]
                 total_q == Len(QuizOf(sess.quiz_id).questions)
                 known == KnownAction(action)
                 after == CASE action = "start" -> ControlStart(sess, total_q, now_ms)
                            [] action = "next" -> ControlNext(sess, total_q, now_ms)
                            [] action = "reveal" -> ControlReveal(sess)
                            [] action = "end" -> ControlEnd(sess)
                            [] OTHER -> sess
             IN  IF known
                 THEN Outcome([doc EXCEPT !.quiz_sessions[i] = after], TRUE,
                              QuizResponse("quiz_control", action, "", 200, "ok"))
                 ELSE Outcome(doc, FALSE,
                              QuizResponse("quiz_control", action, "", 400, "Unknown action"))

\* POST /api/quiz-sessions/<sid>/control
QuizControl(sid, action_in) ==
    /\ LET o == quiz_control(data, sid, action_in, NowMs)
       IN  /\ data' = IF o.saved THEN o.doc ELSE data
           /\ last' = o.resp
    /\ UNCHANGED <<now, req>>

\* the nicknames posted to the join page
NicknameInputs == {"ann", "bob", ""}
\* an answer payload: a string, a list of strings or a dict of strings
StrAnswer(t) == [kind |-> "str", text |-> t, items |-> << >>, pairs |-> EmptyMap]
ListAnswer(l) == [kind |-> "list", text |-> "", items |-> l, pairs |-> EmptyMap]
DictAnswer(d) == [kind |-> "dict", text |-> "", items |-> << >>, pairs |-> d]
\* the answers posted
AnswerInputs == {
    StrAnswer("a"), StrAnswer("b"),
    ListAnswer(<< "a", "b" >>), ListAnswer(<< "a", "x" >>) }
\* the player ids posted: those quiz_join can have issued, and one it has not
PidInputs == {(t + 1) * TickMs : t \in 0..MaxTime} \cup {0}

\* quiz_join, POST: the player id is the millisecond of the request
quiz_join(doc, sid, nickname, now_ms) ==
    LET i == SessionIndex(doc, sid)
    IN  IF i = 0
        THEN Outcome(doc, FALSE, QuizResponse("quiz_join", "", 0, 404, "Session not found"))
        ELSE IF nickname = ""
        THEN Outcome(doc, FALSE, QuizResponse("quiz_join", "", 0, 400, "Nickname required"))
        ELSE Outcome([doc EXCEPT !.quiz_sessions[i].players =
                            Put(@, now_ms, [nickname |-> nickname, score |-> 0])],
                     TRUE, QuizResponse("quiz_join", "", now_ms, 302, "play"))

\* POST /quiz/<sid>/join
QuizJoin(sid, nickname) ==
    /\ LET o == quiz_join(data, sid, nickname, NowMs)
       IN  /\ data' = IF o.saved THEN o.doc ELSE data
           /\ last' = o.resp
    /\ UNCHANGED <<now, req>>

\* a correctness ratio, as a fraction
Ratio(num, den) == [num |-> num, den |-> den]

\* list(map(str, answer_payload or [])): a string is iterated by character (the
\* strings posted here have one)
AsList(payload) ==
    IF payload.kind = "list" THEN payload.items
    ELSE IF payload.kind = "str" /\ payload.text # "" THEN << payload.text >>
    ELSE << >>

\* MatchedPrefix counting every position that matches
MatchedPositions(sub, correct_order) ==
    Cardinality({i \in 1..Min(Len(correct_order), Len(sub)) : sub[i] = correct_order[i]})

\* lines 3342-3346: the positions that match before the first mismatch
MatchedPrefix(sub, correct_order) ==
    LET max_len == Min(Len(correct_order), Len(sub))
        agree(n) == \A i \in 1..n : sub[i] = correct_order[i]
    IN  CHOOSE n \in 0..max_len :
            /\ agree(n)
            /\ (n < max_len => sub[n + 1] # correct_order[n + 1])

\* _grade_quiz_ratio(question, answer_payload).  In a match question the keys are
\* numerals turned into integers and looked up in maps whose keys are strings, so
\* both lookups miss and every key counts as a correct pair.
grade_quiz_ratio(question, payload) ==
    CASE question.type = "single" ->
            IF payload.kind = "str" /\ payload.text = question.correct
            THEN Ratio(1, 1) ELSE Ratio(0, 1)
      [] question.type = "multiple" ->
            IF Range(AsList(payload)) = Range(question.correct)
            THEN Ratio(1, 1) ELSE Ratio(0, 1)
      [] question.type = "order" ->
            LET correct_order == question.order
                sub == AsList(payload)
            IN  IF correct_order = << >> \/ sub = << >> THEN Ratio(0, 1)
                ELSE Ratio(MatchedPrefix(sub, correct_order), Len(correct_order))
      [] question.type = "match" ->
            LET corr == question.map
                sub == payload.pairs
                keys == (DOMAIN corr) \cup (DOMAIN sub)
            IN  IF payload.kind \notin {"dict"} /\ AsList(payload) # << >> THEN Ratio(0, 1)
                ELSE IF keys = {} THEN Ratio(0, 1)
                ELSE Ratio(Cardinality(keys), Cardinality(keys))
      [] OTHER -> Ratio(0, 1)

\* round(a / b, 3) on thousandths: the nearest integer to a / b
RoundDiv(a, b) ==
    IF a >= 0 THEN (2 * a + b) \div (2 * b) ELSE -((2 * (-a) + b) \div (2 * b))

\* SubmissionPoints without the clock
SubmissionPointsUntimed(sess, quiz, question, ratio, penalize, now_ms) ==
    LET points_max == IF question.points # None /\ question.points # 0
                      THEN question.points ELSE 1000
        penalty == IF penalize /\ ratio.num = 0
                   THEN IF question.penalty_points # None /\ question.penalty_points # 0
                        THEN question.penalty_points ELSE 500
                   ELSE 0
        total_num == points_max * ratio.num - penalty * ratio.den
    IN  IF penalize THEN RoundDiv(total_num, ratio.den)
        ELSE RoundDiv(Max(0, total_num), ratio.den)

\* lines 3290-3304: the points of one submission, in thousandths
SubmissionPoints(sess, quiz, question, ratio, penalize, now_ms) ==
    LET per_q == IF question.time_sec # None /\ question.time_sec # 0
                 THEN question.time_sec
                 ELSE IF quiz.time_per_question # None THEN quiz.time_per_question ELSE 30
        total == per_q * 1000
        timed == sess.q_started_at # None /\ sess.q_started_at # 0 /\ per_q > 0
        elapsed == Max(0, now_ms - sess.q_started_at)
        remaining == Max(0, total - elapsed)
        points_max == IF question.points # None /\ question.points # 0
                      THEN question.points ELSE 1000
        earned_num == IF timed THEN points_max * ratio.num * remaining
                      ELSE points_max * ratio.num
        earned_den == IF timed THEN ratio.den * total ELSE ratio.den
        penalty == IF penalize /\ ratio.num = 0
                   THEN IF question.penalty_points # None /\ question.penalty_points # 0
                        THEN question.penalty_points ELSE 500
                   ELSE 0
        total_num == earned_num - penalty * earned_den
    IN  IF penalize THEN RoundDiv(total_num, earned_den)
        ELSE RoundDiv(Max(0, total_num), earned_den)

\* the response of quiz_submit
SubmitResponse(pid, code, body, points) ==
    [op |-> "quiz_submit", action |-> "", pid |-> pid, code |-> code, body |-> body,
     points |-> points]

\* lines 3281-3283: a player with a record for the current question is turned away
AlreadyAnsweredNever(ans_map, pid) == FALSE

AlreadyAnswered(ans_map, pid) == pid \in DOMAIN ans_map

\* quiz_submit
quiz_submit(doc, sid, pid, payload, penalize, now_ms) ==
    LET i == SessionIndex(doc, sid)
    IN  IF i = 0
        THEN Outcome(doc, FALSE, SubmitResponse(pid, 404, "Session not found", 0))
        ELSE
        LET sess == doc.quiz_sessions[i]
            quiz == QuizOf(sess.quiz_id)
            ci == sess.current_index
        IN  IF pid \notin DOMAIN sess.players
            THEN Outcome(doc, FALSE, SubmitResponse(pid, 403, "Player not in session", 0))
            ELSE IF ci < 0
            THEN Outcome(doc, FALSE, SubmitResponse(pid, 400, "No active question", 0))
            ELSE IF quiz.id # None /\ ci >= Len(quiz.questions)
            THEN Outcome(doc, FALSE, SubmitResponse(pid, 500, "error", 0))
            ELSE IF quiz.id = None
            THEN Outcome(doc, FALSE, SubmitResponse(pid, 404, "Question not found", 0))
            ELSE
            LET question == quiz.questions[ci + 1]
                ans_map == Get(sess.answers, StrOf(ci), EmptyMap)
                ratio == grade_quiz_ratio(question, payload)
                points == SubmissionPoints(sess, quiz, question, ratio, penalize, now_ms)
                submitted == [answer |-> payload, ts |-> now_ms,
                              correct |-> (ratio.num = ratio.den), points |-> points]
                player == sess.players[pid]
                after == [sess EXCEPT
                            !.answers = Put(@, StrOf(ci), Put(ans_map, pid, submitted)),
                            !.players = Put(@, pid, [player EXCEPT !.score = @ + points])]
            IN  IF AlreadyAnswered(ans_map, pid)
                THEN Outcome(doc, FALSE, SubmitResponse(pid, 400, "Already answered", 0))
                ELSE Outcome([doc EXCEPT !.quiz_sessions[i] = after], TRUE,
                             SubmitResponse(pid, 200, "recorded", points))

\* POST /api/quiz-sessions/<sid>/submit
QuizSubmit(sid, pid, payload, penalize) ==
    /\ LET o == quiz_submit(data, sid, pid, payload, penalize, NowMs)
           score == data.quiz_sessions[SessionIndex(data, sid)].players[pid].score
       IN  /\ o.saved => (-MaxScore < score /\ score < MaxScore)
           /\ data' = IF o.saved THEN o.doc ELSE data
           /\ last' = o.resp
    /\ UNCHANGED <<now, req>>

\* ------------------------------------------------------------------ scoring and grading on their own

\* the questions whose scoring is applied on its own: with and without time_sec,
\* points and penalty_points
ScoredQuestions ==
    {[type |-> "single", correct |-> "a", order |-> << >>, map |-> EmptyMap,
      points |-> p, time_sec |-> t, penalty_points |-> pp] :
        p \in {None, 2000}, t \in {None, 1, 2}, pp \in {None, 250}}

\* the quiz of those questions: its time_per_question serves a question without time_sec
ScoredQuiz == [id |-> 1, time_per_question |-> 1, questions |-> << >>]

\* what the scoring is applied to: the opening of the question, the clock steps
\* until the answer, the question, the correctness ratio and the penalty flag
ScoringInputs ==
    {[op |-> "score_input", started |-> s, steps |-> k, question |-> q,
      ratio |-> r, penalize |-> pw, points |-> 0] :
        s \in {TickMs, 2 * TickMs}, k \in 0..MaxElapsed, q \in ScoredQuestions,
        r \in {Ratio(0, 1), Ratio(1, 3), Ratio(1, 2), Ratio(1, 1)}, pw \in BOOLEAN}

\* quiz_submit's scoring of one answer
ScoreSubmission ==
    /\ last.op = "score_input"
    /\ last' = [last EXCEPT
            !.op = "scored",
            !.points = SubmissionPoints([q_started_at |-> last.started], ScoredQuiz,
                                        last.question, last.ratio, last.penalize,
                                        last.started + last.steps * TickMs)]
    /\ UNCHANGED <<data, now, req>>

InitScoring ==
    /\ data = InitData
    /\ last \in ScoringInputs
    /\ now = 0
    /\ req = << >>

SpecScoring == InitScoring /\ [][ScoreSubmission]_vars

\* lists of at most n of these items
RECURSIVE ListsUpTo(_, _)
ListsUpTo(items, n) ==
    IF n = 0 THEN {<< >>}
    ELSE LET shorter == ListsUpTo(items, n - 1)
         IN  shorter \cup {Append(l, x) : l \in shorter, x \in items}

\* dicts from some of these keys to these values
DictsOver(keys, values) == UNION {[D -> values] : D \in SUBSET keys}

\* an order question with this key
OrderQuestion(key) ==
    [type |-> "order", correct |-> "", order |-> key, map |-> EmptyMap,
     points |-> 1000, time_sec |-> 1, penalty_points |-> None]

\* a match question with this key; the keys of a stored map are strings
MatchQuestion(key) ==
    [type |-> "match", correct |-> "", order |-> << >>, map |-> key,
     points |-> 1000, time_sec |-> 1, penalty_points |-> None]

\* what the grading of an order question is applied to
OrderInputs ==
    {[op |-> "grade_input", question |-> OrderQuestion(key), payload |-> ListAnswer(sub),
      ratio |-> Ratio(0, 1)] :
        key \in {<< "A", "B", "C" >>, << "A", "B" >>},
        sub \in ListsUpTo({"A", "B", "C", "X"}, MaxAnswerLen)}

\* what the grading of a match question is applied to
MatchInputs ==
    {[op |-> "grade_input", question |-> MatchQuestion(key), payload |-> DictAnswer(sub),
      ratio |-> Ratio(0, 1)] :
        key \in DictsOver({"0", "1"}, {"x", "y"}) \ {EmptyMap},
        sub \in DictsOver({"0", "1"}, {"x", "y"})}

\* _grade_quiz_ratio applied to one answer
GradeAnswer ==
    /\ last.op = "grade_input"
    /\ last' = [last EXCEPT
            !.op = "graded",
            !.ratio = grade_quiz_ratio(last.question, last.payload)]
    /\ UNCHANGED <<data, now, req>>

InitOrderGrading ==
    /\ data = InitData
    /\ last \in OrderInputs
    /\ now = 0
    /\ req = << >>

InitMatchGrading ==
    /\ data = InitData
    /\ last \in MatchInputs
    /\ now = 0
    /\ req = << >>

SpecOrderGrading == InitOrderGrading /\ [][GradeAnswer]_vars

SpecMatchGrading == InitMatchGrading /\ [][GradeAnswer]_vars

\* the place of a nickname among those that occur here, in the order Python
\* compares strings (by code point: capitals come before small letters)
NickRank(n) ==
    CASE n = "" -> 0
      [] n = "Zed" -> 1
      [] n = "ann" -> 2
      [] n = "bob" -> 3
      [] OTHER -> 4

\* PlacedBefore with the lowest score first
PlacedBeforeAscending(players, p, q) ==
    \/ players[p].score < players[q].score
    \/ players[p].score = players[q].score /\ p < q

\* line 3366: the sort key (-score, nickname or ""); the sort is stable, and the
\* players dict is in the order of the joins, that of the player ids
PlacedBefore(players, p, q) ==
    \/ players[p].score > players[q].score
    \/ /\ players[p].score = players[q].score
       /\ NickRank(players[p].nickname) < NickRank(players[q].nickname)
    \/ /\ players[p].score = players[q].score
       /\ NickRank(players[p].nickname) = NickRank(players[q].nickname)
       /\ p < q

\* _compute_quiz_leaderboard(sess)
compute_quiz_leaderboard(sess) ==
    LET players == sess.players
        place(p) == 1 + Cardinality({q \in DOMAIN players : PlacedBefore(players, q, p)})
    IN  [i \in 1..Cardinality(DOMAIN players) |->
            LET p == CHOOSE x \in DOMAIN players : place(x) = i
            IN  [pid |-> p, nickname |-> players[p].nickname, score |-> players[p].score]]

\* the keys a stored question carries: a field holding its placeholder is absent
question_keys(q) ==
    {"type", "points"}
        \cup (IF q.time_sec # None THEN {"time_sec"} ELSE {})
        \cup (IF q.penalty_points # None THEN {"penalty_points"} ELSE {})
        \cup (IF q.correct # "" THEN {"correct"} ELSE {})
        \cup (IF q.order # << >> THEN {"order"} ELSE {})
        \cup (IF q.map # EmptyMap THEN {"map"} ELSE {})

\* popped_keys popping nothing
popped_keys_none(reveal) == {}

\* lines 3250-3253: the keys popped from the copy of the question
popped_keys(reveal) == IF reveal THEN {} ELSE {"correct", "order", "map"}

\* "question": None in a payload: a question without any key
NoQuestion == [k \in {} |-> 0]

\* lines 3231-3236: the time left on the current question, None when no question
\* has been opened
time_left_ms(sess, time_per_q, now_ms) ==
    IF sess.q_started_at # None /\ sess.q_started_at # 0
          /\ time_per_q > 0 /\ sess.current_index >= 0
    THEN Max(0, (sess.q_started_at + time_per_q * 1000) - now_ms)
    ELSE None

\* quiz_state: the payload a poll returns; nothing is saved
quiz_state(doc, sid, now_ms) ==
    LET i == SessionIndex(doc, sid)
    IN  IF i = 0
        THEN Outcome(doc, FALSE, QuizResponse("quiz_state", "", "", 404, "Session not found"))
        ELSE LET sess == doc.quiz_sessions[i]
                 quiz == QuizOf(sess.quiz_id)
                 questions == quiz.questions
                 current_index == sess.current_index
                 has_q == 0 <= current_index /\ current_index < Len(questions)
                 time_per_q ==
                    IF has_q /\ questions[current_index + 1].time_sec # None
                             /\ questions[current_index + 1].time_sec # 0
                    THEN questions[current_index + 1].time_sec
                    ELSE IF quiz.time_per_question # None
                         THEN quiz.time_per_question ELSE 30
                 q == questions[current_index + 1]
                 payload == [
                    status         |-> sess.status,
                    phase          |-> sess.phase,
                    current_index  |-> current_index,
                    reveal         |-> sess.reveal,
                    players        |-> sess.players,
                    leaderboard    |-> compute_quiz_leaderboard(sess),
                    question       |-> IF has_q
                                       THEN [k \in question_keys(q) \ popped_keys(sess.reveal)
                                                |-> q[k]]
                                       ELSE NoQuestion,
                    time_left_ms   |-> time_left_ms(sess, time_per_q, now_ms),
                    time_total_sec |-> time_per_q ]
             IN  Outcome(doc, FALSE, QuizResponse("quiz_state", "", "", 200, payload))

\* GET /api/quiz-sessions/<sid>/state
QuizState(sid) ==
    /\ LET o == quiz_state(data, sid, NowMs)
       IN  /\ data' = IF o.saved THEN o.doc ELSE data
           /\ last' = o.resp
    /\ UNCHANGED <<now, req>>

\* the players a leaderboard is computed for
BoardInputs ==
    {[op |-> "board_input", players |-> ps, board |-> << >>] :
        ps \in UNION {[D -> [nickname : {"ann", "bob", "Zed"}, score : {0, 1000}]] :
                        D \in SUBSET {t * TickMs : t \in 1..MaxPlayers}}}

\* _compute_quiz_leaderboard applied to one session
ComputeBoard ==
    /\ last.op = "board_input"
    /\ last' = [last EXCEPT
            !.op = "board",
            !.board = compute_quiz_leaderboard([players |-> last.players])]
    /\ UNCHANGED <<data, now, req>>

InitBoard ==
    /\ data = InitData
    /\ last \in BoardInputs
    /\ now = 0
    /\ req = << >>

SpecBoard == InitBoard /\ [][ComputeBoard]_vars

\* ------------------------------------------------------------------ randomize

\* (m.get("studio") or "").strip().upper()
Upper(s) ==
    CASE s = "cc" -> "CC"
      [] s = "wsop" -> "WSOP"
      [] OTHER -> s

\* _studio_of(data, email)
studio_of(email) ==
    LET m == member_by_email(email)
    IN  IF m = {} THEN "" ELSE Upper((CHOOSE x \in m : TRUE).studio)

\* eligible(e)
eligible(e) == member_by_email(e) # {}

\* _participations_count(email), over the one debate of the document
participations_count(doc, email) ==
    LET d == doc.debate
        em == Lower(email)
        Holds(l) == \E i \in 1..Len(l) : Lower(l[i]) = em
    IN  (IF Holds(d.judges) THEN 1 ELSE 0)
        + Cardinality({i \in 1..Len(d.teams) : Holds(d.teams[i].members)})
        + (IF Holds(d.reserves) THEN 1 ELSE 0)

\* the emails a sign-up form may carry, in the order they enrol (x1 and x2 are
\* no members)
Candidates == << "m1", "a1", "x1", "m2", "j1", "x2" >>

\* the choices of the sign-up form
SignupChoiceInputs == {"judge", "advocate", "any", "none"}

\* debate["signups"] after the first MaxSignups candidates have registered:
\* email -> choice
SignupInputs ==
    [{Candidates[i] : i \in 1..Min(MaxSignups, Len(Candidates))} -> SignupChoiceInputs]

\* debate["format"] as the editor posts it
FormatInputs == {
    [team_count |-> 2, team_size |-> 1, judge_count |-> 2],
    [team_count |-> 2, team_size |-> 1, judge_count |-> 1],
    [team_count |-> 3, team_size |-> 1, judge_count |-> 1] }

\* the eligible sign-ups of one choice
SignedAs(d, choice) ==
    {e \in DOMAIN d.signups : d.signups[e] = choice /\ eligible(e)}

\* Lines 952-979.  The order the sort by participations (969-970) gives the
\* pools is replaced by random.shuffle (973-974), and every later use filters
\* a pool (997-999, 1041, 1058-1060, 1108) and shuffles the result again
\* (1002-1004, 1063-1065, 1079, 1110): only the members of a pool are read.
judges_only(d) == SignedAs(d, "judge")
advocates_only(d) == SignedAs(d, "advocate")
any_role(d) == SignedAs(d, "any")
judges_pool(d) == judges_only(d) \cup any_role(d)
advocates_pool(d) == advocates_only(d) \cup any_role(d)
all_eligible(d) == judges_only(d) \cup advocates_only(d) \cup any_role(d)

\* total_slots = team_count * team_size
total_slots(d) == d.format.team_count * d.format.team_size

\* advocates_available
advocates_available(d) ==
    Cardinality(advocates_only(d)) + Cardinality(any_role(d))
    - Max(0, d.format.judge_count - Cardinality(judges_only(d)))

\* randomize_rejection with the pool of judges as its only check
randomize_rejection_judges_only(d) ==
    IF Cardinality(judges_pool(d)) < d.format.judge_count THEN "Insufficient judges registered" ELSE ""

\* lines 981-994: the message of the 400 response, "" when the checks pass
randomize_rejection(d) ==
    IF Cardinality(all_eligible(d)) < total_slots(d) + d.format.judge_count
    THEN "Insufficient members registered"
    ELSE IF advocates_available(d) < total_slots(d) THEN "Insufficient advocates after judge selection"
    ELSE IF Cardinality(judges_pool(d)) < d.format.judge_count THEN "Insufficient judges registered"
    ELSE ""

RECURSIVE Shuffled(_)
\* random.shuffle of a list with these elements: every order
Shuffled(S) ==
    IF S = {} THEN {<< >>}
    ELSE UNION {{<<x>> \o l : l \in Shuffled(S \ {x})} : x \in S}

RECURSIVE Keep(_, _)
\* [e for e in l if e in S]
Keep(l, S) ==
    IF l = << >> THEN << >>
    ELSE (IF Head(l) \in S THEN <<Head(l)>> ELSE << >>) \o Keep(Tail(l), S)

\* l[:n], n >= 0
Take(l, n) == SubSeq(l, 1, Min(n, Len(l)))

\* the members of a pool by studio, lines 997-999 and 1058-1060
OfStudio(pool, tag) ==
    IF tag = "other" THEN {e \in pool : studio_of(e) \notin {"CC", "WSOP"}}
    ELSE {e \in pool : studio_of(e) = tag}

\* lines 1008-1038: the judges picked from the shuffled studio lists
pick_judges(d, cc_judges, ws_judges, ot_judges) ==
    LET judge_count == d.format.judge_count
        cc_judges_only == Keep(cc_judges, judges_only(d))
        ws_judges_only == Keep(ws_judges, judges_only(d))
        ot_judges_only == Keep(ot_judges, judges_only(d))
        cc_judges_only_count == Min(Len(cc_judges_only), judge_count \div 2)
        ws_judges_only_count == Min(Len(ws_judges_only), judge_count - cc_judges_only_count)
        ot_judges_only_count == judge_count - cc_judges_only_count - ws_judges_only_count
        first == Take(cc_judges_only, cc_judges_only_count)
                 \o Take(ws_judges_only, ws_judges_only_count)
                 \o Take(ot_judges_only, ot_judges_only_count)
        remaining_judges_needed == judge_count - Len(first)
        cc_any_remaining == Keep(cc_judges, Range(cc_judges) \ Range(first))
        ws_any_remaining == Keep(ws_judges, Range(ws_judges) \ Range(first))
        ot_any_remaining == Keep(ot_judges, Range(ot_judges) \ Range(first))
        cc_any_count == Min(Len(cc_any_remaining), remaining_judges_needed \div 2)
        ws_any_count == Min(Len(ws_any_remaining), remaining_judges_needed - cc_any_count)
        ot_any_count == remaining_judges_needed - cc_any_count - ws_any_count
    IN  IF remaining_judges_needed > 0
        THEN first \o Take(cc_any_remaining, cc_any_count)
                   \o Take(ws_any_remaining, ws_any_count)
                   \o Take(ot_any_remaining, ot_any_count)
        ELSE first

\* f"t{idx}"
TeamLabel(idx) ==
    CASE idx = 1 -> "t1"
      [] idx = 2 -> "t2"
      [] idx = 3 -> "t3"
      [] OTHER -> "t4"

\* f"Team {idx}"
TeamName(idx) ==
    CASE idx = 1 -> "Team 1"
      [] idx = 2 -> "Team 2"
      [] idx = 3 -> "Team 3"
      [] OTHER -> "Team 4"

\* lines 1050-1055: the first team_count teams, new ones appended, members reset
initial_teams(d) ==
    [i \in 1..d.format.team_count |->
        IF i <= Len(d.teams) THEN [d.teams[i] EXCEPT !.members = << >>]
        ELSE [id |-> TeamLabel(i), name |-> TeamName(i), members |-> << >>]]

\* lines 1086-1092: each team in turn pops from all_remaining until it is full
\* or the list is empty
fill_teams(d, all_remaining) ==
    LET team_size == d.format.team_size
        teams == initial_teams(d)
    IN  [i \in 1..Len(teams) |->
            [teams[i] EXCEPT !.members =
                SubSeq(all_remaining, (i - 1) * team_size + 1,
                       Min(i * team_size, Len(all_remaining)))]]

\* used, after the teams are filled
used_by(teams) == UNION {Range(teams[i].members) : i \in 1..Len(teams)}

\* underfilled finding no team short
underfilled_never(teams, team_size) == FALSE

\* lines 1100-1102: some team has fewer than team_size members
underfilled(teams, team_size) ==
    \E i \in 1..Len(teams) : Len(teams[i].members) < team_size

\* reserve_pool with the picked judges and team members left in
reserve_pool_unfiltered(d, picked_judges, used) == all_eligible(d)

\* lines 1106-1108: the sign-ups neither picked as judges nor used in a team
reserve_pool(d, picked_judges, used) ==
    {e \in all_eligible(d) : e \notin Range(picked_judges) \cup used}

\* the response of POST /api/debates/<did>/randomize
RandomizeResponse(code, msg, judges, teams, reserves) ==
    [op |-> "randomize", code |-> code, msg |-> msg,
     judges |-> judges, teams |-> teams, reserves |-> reserves]

RandomizeFailure(msg) == RandomizeResponse(400, msg, << >>, << >>, << >>)

\* debate_randomize with its random draws as arguments: the shuffled studio
\* lists of the judges pool, the shuffled all_remaining and the shuffled reserves
debate_randomize(doc, picked_judges, all_remaining, reserves) ==
    LET d == doc.debate
        teams == fill_teams(d, all_remaining)
    IN  IF underfilled(teams, d.format.team_size)
        THEN Outcome(doc, FALSE, RandomizeFailure("Team has too few members"))
        ELSE Outcome([doc EXCEPT !.debate.judges = picked_judges,
                                 !.debate.teams = teams,
                                 !.debate.reserves = reserves],
                     TRUE,
                     RandomizeResponse(200, "", picked_judges, teams, reserves))

\* POST /api/debates/<did>/randomize
Randomize ==
    LET d == data.debate
        rejection == randomize_rejection(d)
    IN  /\ UNCHANGED <<now, req>>
        /\ IF rejection # ""
           THEN data' = data /\ last' = RandomizeFailure(rejection)
           ELSE \E cc_judges \in Shuffled(OfStudio(judges_pool(d), "CC")),
                   ws_judges \in Shuffled(OfStudio(judges_pool(d), "WSOP")),
                   ot_judges \in Shuffled(OfStudio(judges_pool(d), "other")) :
                LET picked_judges == pick_judges(d, cc_judges, ws_judges, ot_judges)
                IN  \E all_remaining \in Shuffled(advocates_pool(d) \ Range(picked_judges)) :
                    LET used == used_by(fill_teams(d, all_remaining))
                    IN  \E reserves \in Shuffled(reserve_pool(d, picked_judges, used)) :
                        LET o == debate_randomize(data, picked_judges, all_remaining, reserves)
                        IN  /\ data' = IF o.saved THEN o.doc ELSE data
                            /\ last' = o.resp

\* the debate with its sign-ups and format, before the first assignment
InitRandomize ==
    /\ \E signups \in SignupInputs, format \in FormatInputs :
           data = [InitData EXCEPT !.debate.signups = signups, !.debate.format = format]
    /\ last = NoRequest
    /\ now = 0
    /\ req = << >>

SpecRandomize == InitRandomize /\ [][Randomize]_vars

\* debate["teams"] as the editor may have left it (PUT /api/debates stores the
\* list it is sent): up to two teams with different ids, no members yet
ExistingTeamsInputs ==
    LET team(i) == [id |-> TeamLabel(i), name |-> TeamName(i), members |-> << >>]
    IN  {<< >>}
        \cup {<<team(i)>> : i \in 1..3}
        \cup {<<team(x[1]), team(x[2])>> : x \in {y \in (1..3) \X (1..3) : y[1] # y[2]}}

\* the debate with its teams, format and the sign-ups of the four members,
\* before the first assignment
InitRandomizeTeams ==
    /\ \E teams \in ExistingTeamsInputs, format \in FormatInputs,
          signups \in [{"m1", "a1", "m2", "j1"} -> {"judge", "advocate", "any"}] :
           data = [InitData EXCEPT !.debate.teams = teams,
                                   !.debate.judges = << >>,
                                   !.debate.signups = signups,
                                   !.debate.format = format]
    /\ last = NoRequest
    /\ now = 0
    /\ req = << >>

SpecRandomizeTeams == InitRandomizeTeams /\ [][Randomize]_vars

\* ------------------------------------------------------------------ interleaved requests

\* The handlers take no lock and the store has no version check: between the
\* load_data() of a request and its save_data() other requests may load and save.

\* the requests that may be in flight together
NumRequests == 2
ReqIds == 1..NumRequests

\* public_vote_page up to load_data(): the request holds its own copy of the document
VoteLoad(r, email_in, team_in, step) ==
    /\ r \notin DOMAIN req
    /\ req' = Put(req, r, [pc |-> "loaded", email |-> email_in, team |-> team_in,
                           step |-> step, snap |-> data, msg |-> ""])
    /\ UNCHANGED <<data, last, now>>

\* public_vote_page from there to save_data(): the copy, changed, replaces the document
VoteSave(r) ==
    /\ r \in DOMAIN req
    /\ req[r].pc = "loaded"
    /\ LET o == public_vote_page(req[r].snap, req[r].email, req[r].team, req[r].step)
       IN  /\ data' = IF o.saved THEN o.doc ELSE data
           /\ last' = o.resp
           /\ req' = [req EXCEPT ![r].pc = "done", ![r].msg = o.resp.msg]
    /\ UNCHANGED now

\* quiz_submit up to load_data(): the request holds its own copy of the document
QuizSubmitLoad(r, pid, payload) ==
    /\ r \notin DOMAIN req
    /\ req' = Put(req, r, [pc |-> "loaded", kind |-> "submit", pid |-> pid,
                           action |-> "", payload |-> payload, snap |-> data,
                           code |-> 0, points |-> 0])
    /\ UNCHANGED <<data, last, now>>

\* quiz_control up to load_data()
QuizControlLoad(r, action) ==
    /\ r \notin DOMAIN req
    /\ req' = Put(req, r, [pc |-> "loaded", kind |-> "control", pid |-> 0,
                           action |-> action, payload |-> StrAnswer(""), snap |-> data,
                           code |-> 0, points |-> 0])
    /\ UNCHANGED <<data, last, now>>

\* either handler from there to save_data(): the session of the copy, changed,
\* is written back with the whole copy
QuizRaceSave(r) ==
    /\ r \in DOMAIN req
    /\ req[r].pc = "loaded"
    /\ LET o == IF req[r].kind = "submit"
                THEN quiz_submit(req[r].snap, SessionId, req[r].pid, req[r].payload, FALSE, NowMs)
                ELSE quiz_control(req[r].snap, SessionId, req[r].action, NowMs)
       IN  /\ data' = IF o.saved THEN o.doc ELSE data
           /\ last' = o.resp
           /\ req' = [req EXCEPT ![r].pc = "done", ![r].code = o.resp.code,
                                 ![r].points = IF req[r].kind = "submit"
                                               THEN o.resp.points ELSE 0]
    /\ UNCHANGED now

\* the document with a session of the two-question quiz that ann and bob have
\* joined and the host has started: the first question is open
RunningQuizData ==
    LET created == [InitData EXCEPT !.quiz_sessions = << NewSession(1) >>]
        ann == quiz_join(created, SessionId, "ann", TickMs).doc
        bob == quiz_join(ann, SessionId, "bob", 2 * TickMs).doc
    IN  quiz_control(bob, SessionId, "start", 2 * TickMs).doc

\* the same session after the host's next: the leaderboard of the first question
LeaderboardQuizData == quiz_control(RunningQuizData, SessionId, "next", 2 * TickMs).doc

\* ------------------------------------------------------------------ specifications

Init ==
    /\ data = InitData
    /\ last = NoRequest
    /\ now = 0
    /\ req = << >>

\* a public vote request
VoteNext ==
    \/ \E e \in EligibleInputs, t \in TeamInputs : PublicVote(e, t, 1)
    \/ \E t \in {"t1", "t2"} : PublicVote("v1", t, 0)
    \/ \E e \in VoterInputs \ EligibleInputs, s \in StepInputs : PublicVote(e, "t1", s)
    \/ \E e \in EligibleInputs : PublicVote(e, "t1", 2) \/ PublicVote(e, "t1", 3)

\* a jury vote request: the simple choice or the rubric fields filled in
JuryNext ==
    \/ \E e \in JurorInputs, c \in ChoiceInputs : JuryVote(e, c, EmptyForm, 0)
    \/ \E e \in JurorInputs, f \in Forms : JuryVote(e, "", f, 2)
    \/ \E e \in JudgeInputs \ JurorInputs, s \in StepInputs : JuryVote(e, "t1", EmptyForm, s)
    \/ \E e \in JurorInputs : JuryVote(e, "t1", EmptyForm, 1) \/ JuryVote(e, "t1", EmptyForm, 3)

\* a request of the live control
LiveNext == LivePage \/ LiveStart \/ LiveStop \/ LiveScores \/ Tick

\* a request of the quiz control route
QuizControlNext == \E sid \in SidInputs, a \in ActionInputs : QuizControl(sid, a)

\* a request of a quiz player
QuizPlayerNext ==
    \/ \E sid \in SidInputs, n \in NicknameInputs : QuizJoin(sid, n)
    \/ \E sid \in SidInputs, pid \in PidInputs, a \in AnswerInputs, pw \in BOOLEAN :
            QuizSubmit(sid, pid, a, pw)

\* a quiz session from its creation: players join and answer, the host controls
QuizNext ==
    \/ \E q \in QuizIdInputs : QuizCreate(q)
    \/ QuizControlNext
    \/ QuizPlayerNext
    \/ Tick

SpecQuiz == Init /\ [][QuizNext]_vars

\* the control route on a session with players
SpecQuizControl ==
    Init /\ [][\/ \E q \in QuizIdInputs : QuizCreate(q)
               \/ QuizControlNext
               \/ \E n \in {"ann"} : QuizJoin(SessionId, n)
               \/ Tick]_vars

\* the host starts a session that is still waiting
QuizStartFresh ==
    /\ SessionIndex(data, SessionId) # 0
    /\ data.quiz_sessions[SessionIndex(data, SessionId)].status = "waiting"
    /\ QuizControl(SessionId, "start")

\* one quiz run: a player joins, the host starts and moves on, answers arrive
SpecQuizSubmit ==
    Init /\ [][\/ QuizCreate(1)
               \/ \E n \in {"ann"} : QuizJoin(SessionId, n)
               \/ QuizStartFresh
               \/ QuizControl(SessionId, "next")
               \/ \E pid \in {0, TickMs}, pw \in BOOLEAN,
                     a \in {StrAnswer("a"), StrAnswer("b"), ListAnswer(<< "a", "b" >>)} :
                       QuizSubmit(SessionId, pid, a, pw)
               \/ Tick]_vars

\* the first player joins the session
QuizJoinFirst ==
    /\ SessionIndex(data, SessionId) # 0
    /\ data.quiz_sessions[SessionIndex(data, SessionId)].players = EmptyMap
    /\ QuizJoin(SessionId, "ann")

\* a quiz run the host may start again: one player, who answers with the list
\* the second question asks for
SpecQuizRestart ==
    Init /\ [][\/ QuizCreate(1)
               \/ QuizJoinFirst
               \/ QuizControl(SessionId, "start")
               \/ QuizControl(SessionId, "next")
               \/ \E pid \in {TickMs, 2 * TickMs} :
                       QuizSubmit(SessionId, pid, ListAnswer(<< "a", "b" >>), FALSE)
               \/ Tick]_vars

\* a step of a quiz request among others in flight
QuizRaceNext ==
    \E r \in ReqIds :
        \/ \E pid \in {TickMs, 2 * TickMs}, a \in {StrAnswer("a"), StrAnswer("b")} :
                QuizSubmitLoad(r, pid, a)
        \/ QuizControlLoad(r, "next")
        \/ QuizRaceSave(r)

\* the session with its first question open or on its leaderboard
InitQuizRace ==
    /\ data \in {RunningQuizData, LeaderboardQuizData}
    /\ last = NoRequest
    /\ now = 1
    /\ req = << >>

\* quiz requests whose loads and saves interleave
SpecQuizRace == InitQuizRace /\ [][QuizRaceNext]_vars

\* a quiz run the players' pages poll: the host controls, a player joins
SpecQuizState ==
    Init /\ [][\/ \E q \in QuizIdInputs : QuizCreate(q)
               \/ \E a \in {"start", "next", "reveal", "end"} : QuizControl(SessionId, a)
               \/ QuizJoinFirst
               \/ \E sid \in SidInputs : QuizState(sid)
               \/ Tick]_vars

\* every handler, each request served from load to save before the next
Next == VoteNext \/ JuryNext \/ LiveNext \/ QuizNext \/ Randomize

Spec == Init /\ [][Next]_vars

\* an accepted public vote on the public step
ValidVote ==
    \E e \in {"v1", "V2"}, t \in {"t1", "t2"} : PublicVote(e, t, 1)

\* an accepted public vote on the combined step
ValidVoteCombined == PublicVote("v1", "t1", 0)

\* an accepted jury vote on the simple step
ValidSimple ==
    \E e \in {"J1", "j2"}, c \in {"t1", "t2"} : JuryVote(e, c, EmptyForm, 0)

\* an accepted jury vote on the rubric step
ValidRubric ==
    \E f \in {g \in Forms : g["t2"] = ""} : JuryVote("J1", "", f, 2)

\* accepted votes of both kinds
SpecScores ==
    Init /\ [][ValidVote \/ ValidVoteCombined \/ ValidSimple \/ ValidRubric]_vars

\* a debate run: accepted simple and public votes, and the live control
SpecDebate ==
    Init /\ [][ValidVote \/ ValidSimple \/ LiveNext]_vars

\* the live control around simple jury votes and public votes on the combined step
SpecLiveScores ==
    Init /\ [][ValidVoteCombined \/ ValidSimple \/ LiveNext]_vars

\* a step of a public vote request among others in flight
RaceNext ==
    \E r \in ReqIds :
        \/ \E e \in {"v1", "V2", "j1"}, t \in {"t1", "t2"}, s \in {0, 1} : VoteLoad(r, e, t, s)
        \/ VoteSave(r)

\* public vote requests whose loads and saves interleave
SpecRace == Init /\ [][RaceNext]_vars

\* public votes only
SpecVote == Init /\ [][VoteNext]_vars

\* jury votes only
SpecJury == Init /\ [][JuryNext]_vars

\* the live control only
SpecLive == Init /\ [][LiveNext]_vars

\* ------------------------------------------------------------------ claims

\* scores.public and scores.jury of the stored debate
public_scores == data.debate.scores.public
jury_scores == data.debate.scores.jury

\* the votes counted in a step's map
TallySum(step_map) == SumOver(step_map, TallyKeys(step_map))

\* the _voters entry of a step's map
VotersOf(step_map) == Get(step_map, "_voters", EmptyMap)

\* planned < live < finished
StatusRank(status) ==
    CASE status = "planned" -> 0
      [] status = "live" -> 1
      [] OTHER -> 2

\* C1: a debate's status never moves backwards along planned -> live -> finished,
\* whatever live_start and live_stop calls are made.
DebateStatusMonotonic ==
    [][StatusRank(data'.debate.status) >= StatusRank(data.debate.status)]_vars

\* C2: in every public step the tallies add up to the number of distinct voters
\* recorded in _voters.
TallySumEqualsVoters ==
    \A s \in DOMAIN public_scores :
        TallySum(public_scores[s]) = Cardinality(DOMAIN VotersOf(public_scores[s]))

RevoteSameTeamIdempotent ==
    [][LET before == Get(public_scores, StrOf(last'.step), EmptyMap)
       IN  (/\ last'.op = "public_vote"
            /\ last'.msg = MsgRecorded
            /\ Get(VotersOf(before), last'.email, "") = last'.team)
           => public_scores' = public_scores
      ]_vars

\* C5: when two public vote requests by distinct eligible voters on one step have
\* both been served, however their loads and saves interleave, both voters are
\* in _voters with their choices and the tallies count both votes.
NoLostVote ==
    \A r1, r2 \in DOMAIN req :
        (/\ r1 # r2
         /\ req[r1].pc = "done" /\ req[r2].pc = "done"
         /\ req[r1].msg = MsgRecorded /\ req[r2].msg = MsgRecorded
         /\ req[r1].step = req[r2].step
         /\ Lower(req[r1].email) # Lower(req[r2].email))
        => LET key == StrOf(req[r1].step)
               step_map == Get(public_scores, key, EmptyMap)
           IN  /\ Get(VotersOf(step_map), Lower(req[r1].email), "") = req[r1].team
               /\ Get(VotersOf(step_map), Lower(req[r2].email), "") = req[r2].team
               /\ TallySum(step_map) = 2

\* the voter is not invited, or is a judge, or is a member of one of the teams
IneligibleVoter(email) ==
    \/ email \notin InvitedEmails
    \/ email \in Range(data.debate.judges)
    \/ \E i \in 1..Len(data.debate.teams) : email \in Range(data.debate.teams[i].members)

\* C6: a public vote by a voter who is not invited, or is a judge, or is a team
\* member is not recorded and leaves the debate's scores as they were.
IneligibleVoteRejected ==
    [][(last'.op = "public_vote" /\ IneligibleVoter(last'.email))
       => /\ last'.msg # MsgRecorded
          /\ data'.debate.scores = data.debate.scores
      ]_vars

\* C6 witness: with votes already counted, team member m1 has been turned away
IneligibleVoteWitness ==
    /\ last.op = "public_vote" /\ last.email = "m1" /\ last.msg = MsgTeam
    /\ "1" \in DOMAIN public_scores
    /\ TallySum(public_scores["1"]) >= 1

\* C7: a jury vote with an email that is not in debate.judges is not recorded and
\* leaves scores.jury as it was.
NonJurorRejected ==
    [][(last'.op = "jury_vote" /\ last'.email \notin Range(data.debate.judges))
       => /\ last'.msg # MsgRecorded
          /\ jury_scores' = jury_scores
      ]_vars

\* C7 witness: with jury votes stored, invited voter v1 has been turned away
NonJurorWitness ==
    /\ last.op = "jury_vote" /\ last.email = "v1" /\ last.msg = MsgNotJuror
    /\ DOMAIN jury_scores = {"0", "2"}

\* the value stored for a rubric field: the number typed, within the criterion's 0..10
SubmittedValue(raw) ==
    CASE raw = "4" -> 4
      [] raw = "12" -> 10

\* the record a submission asks for: its rubric values, or 1 for the team chosen
SubmittedRecord(resp) ==
    IF Flow[resp.step + 1].action \in {"simple_jury_vote", "simple_jury+public"}
    THEN [t \in {resp.team} \ {""} |-> [k \in {"default"} |-> 1]]
    ELSE [t \in {x \in DOMAIN resp.form : resp.form[x] # ""} |->
            [k \in {"c1"} |-> SubmittedValue(resp.form[t])]]

\* the records of scores.jury, as (step, judge) pairs
JuryCells(jury) == UNION {{<<s, j>> : j \in DOMAIN jury[s]} : s \in DOMAIN jury}

\* C8: after a recorded jury submission the judge's record for the step holds
\* exactly the submission's values, and every other judge's and step's record is
\* as before.
JurySubmissionOverwrites ==
    [][(last'.op = "jury_vote" /\ last'.msg = MsgRecorded)
       => LET mine == <<StrOf(last'.step), last'.email>>
          IN  /\ mine \in JuryCells(jury_scores')
              /\ jury_scores'[mine[1]][mine[2]] = SubmittedRecord(last')
              /\ JuryCells(jury_scores') \ {mine} = JuryCells(jury_scores) \ {mine}
              /\ \A c \in JuryCells(jury_scores) \ {mine} :
                    jury_scores'[c[1]][c[2]] = jury_scores[c[1]][c[2]]
      ]_vars

\* C8 witness: j1 scored only t1 on the rubric step, j2's record there and j1's
\* record on the simple step are in place
JuryOverwriteWitness ==
    /\ last.op = "jury_vote" /\ last.msg = MsgRecorded
    /\ last.email = "j1" /\ last.step = 2
    /\ last.form = [t \in {"t1", "t2"} |-> IF t = "t1" THEN "12" ELSE ""]
    /\ JuryCells(jury_scores) = {<<"0", "j1">>, <<"2", "j1">>, <<"2", "j2">>}
    /\ DOMAIN jury_scores["2"]["j1"] = {"t1"}
    /\ jury_scores["2"]["j1"]["t1"]["c1"] = 10
    /\ DOMAIN jury_scores["2"]["j2"] = {"t1", "t2"}

\* C9: after a recorded submission on a simple step the judge's record gives the
\* implicit 1 under "default" to exactly one team of the debate.
SimpleVoteAwardsOneTeam ==
    (/\ last.op = "jury_vote"
     /\ last.msg = MsgRecorded
     /\ Flow[last.step + 1].action \in {"simple_jury_vote", "simple_jury+public"})
    => LET rec == jury_scores[StrOf(last.step)][last.email]
       IN  Cardinality({t \in Range(TeamIds(data.debate)) :
                           /\ t \in DOMAIN rec
                           /\ "default" \in DOMAIN rec[t]
                           /\ rec[t]["default"] = 1}) = 1

\* the sum of every jury value recorded for the team
JuryValueSum(debate, team_id) ==
    LET jury == debate.scores.jury
        cells == {c \in JuryCells(jury) : team_id \in DOMAIN jury[c[1]][c[2]]}
        value == [c \in cells |->
                    SumOver(jury[c[1]][c[2]][team_id], DOMAIN jury[c[1]][c[2]][team_id])]
    IN  SumOver(value, cells)

\* the public steps in which no tally is above the team's
PublicStepsWon(debate, team_id) ==
    LET public == debate.scores.public
    IN  {s \in DOMAIN public :
            /\ team_id \in TallyKeys(public[s])
            /\ \A k \in TallyKeys(public[s]) : public[s][k] <= public[s][team_id]}

\* C10: for every team the total is the sum of its jury values plus the number
\* of public steps in which it has the most votes, ties included.
TotalsAreJuryPlusPublic ==
    LET totals == compute_totals(data.debate)
    IN  \A t \in Range(TeamIds(data.debate)) :
            /\ t \in DOMAIN totals
            /\ totals[t] = JuryValueSum(data.debate, t)
                           + Cardinality(PublicStepsWon(data.debate, t))

\* C10 witness: the judges split t1/t2 on the simple step, t1 leads t2 by 2 to 1 on
\* the public step: t1 totals 2, t2 totals 1
TotalsWitness ==
    /\ DOMAIN jury_scores = {"0"}
    /\ DOMAIN jury_scores["0"] = {"j1", "j2"}
    /\ DOMAIN jury_scores["0"]["j1"] = {"t1"}
    /\ DOMAIN jury_scores["0"]["j2"] = {"t2"}
    /\ DOMAIN public_scores = {"1"}
    /\ TallyKeys(public_scores["1"]) = {"t1", "t2"}
    /\ public_scores["1"]["t1"] = 2
    /\ public_scores["1"]["t2"] = 1
    /\ compute_totals(data.debate) = [t \in {"t1", "t2"} |-> IF t = "t1" THEN 2 ELSE 1]

\* the debate with no votes stored, in the shapes the stored document may have
NoScores == [jury |-> EmptyMap, public |-> EmptyMap]
WithoutScores(d) == [k \in (DOMAIN d) \ {"scores"} |-> d[k]]
ZeroTotals(d) == [t \in {d.teams[i].id : i \in 1..Len(d.teams)} |-> 0]

\* C11: aggregating a debate whose scores structure is empty or missing gives 0 for
\* every team of the debate and has no other key, also when served by live_scores
EmptyScoresTotalZero ==
    LET d == data.debate
    IN  /\ compute_totals([d EXCEPT !.scores = NoScores]) = ZeroTotals(d)
        /\ compute_totals([d EXCEPT !.scores = EmptyMap]) = ZeroTotals(d)
        /\ compute_totals(WithoutScores(d)) = ZeroTotals(d)
        /\ (last.op = "live_scores" /\ last.msg = "active" /\ d.scores = NoScores)
               => last.totals = ZeroTotals(d)

EmptyScoresWitness ==
    /\ last.op = "live_scores"
    /\ last.msg = "active"
    /\ data.debate.scores = NoScores
    /\ last.totals = [t \in {"t1", "t2"} |-> 0]

\* C12: a request that aggregates the scores leaves the stored debate's teams, scores,
\* status and live flag as they were, whatever the state of the debate
AggregationSideEffectFree ==
    [][last'.op = "live_scores" =>
          /\ data'.debate.teams = data.debate.teams
          /\ data'.debate.scores = data.debate.scores
          /\ data'.debate.status = data.debate.status
          /\ data'.debate.live = data.debate.live]_vars

AggregationWitness ==
    /\ last.op = "live_scores"
    /\ last.msg = "active"
    /\ last.totals = compute_totals(data.debate)
    /\ \E t \in DOMAIN last.totals : last.totals[t] > 0
    /\ data.points_entries # << >>

\* C13: live.active is true exactly when status is live, after any live_start and
\* live_stop calls
StatusMatchesLiveFlag ==
    data.debate.live.active <=> (data.debate.status = "live")

StatusFlagWitness ==
    /\ last.op = "live_start"
    /\ data.debate.live.active
    /\ data.debate.status = "live"
    /\ data.points_entries # << >>

\* the stored quiz session, once created, and the questions of its quiz
HasSession == Len(data.quiz_sessions) > 0
Sess == data.quiz_sessions[1]
TotalQ == Len(QuizOf(Sess.quiz_id).questions)

\* the step is a control request for the stored session, with this action
ControlStep(a) ==
    /\ HasSession
    /\ now' = now
    /\ last'.op = "quiz_control"
    /\ last'.action = a
    /\ last'.code # 404

\* C14: start on a session whose quiz has no questions fails and leaves status,
\* phase, current_index, reveal and q_started_at as they were
EmptyQuizStartRejected ==
    [][(ControlStep("start") /\ TotalQ = 0) =>
          /\ last'.code # 200
          /\ Sess'.status = Sess.status
          /\ Sess'.phase = Sess.phase
          /\ Sess'.current_index = Sess.current_index
          /\ Sess'.reveal = Sess.reveal
          /\ Sess'.q_started_at = Sess.q_started_at]_vars

\* C15: no control action moves a finished session to another status
FinishedStaysFinished ==
    [][((\E a \in {"start", "next", "reveal", "end"} : ControlStep(a))
            /\ Sess.status = "finished")
          => Sess'.status = "finished"]_vars

\* C16: a control action leaves current_index where it was or raises it by one,
\* except that start sets it to 0; next, reveal and end never lower it
IndexOnlyAdvances ==
    [][\A a \in {"start", "next", "reveal", "end"} :
          ControlStep(a) =>
              /\ \/ a = "start" /\ Sess'.current_index = 0
                 \/ /\ Sess.current_index <= Sess'.current_index
                    /\ Sess'.current_index <= Sess.current_index + 1
              /\ a # "start" => Sess'.current_index >= Sess.current_index]_vars

IndexRestartWitness ==
    /\ HasSession
    /\ last.op = "quiz_control"
    /\ last.action = "start"
    /\ Sess.current_index = 0
    /\ "1" \in DOMAIN Sess.answers

\* C17: next while phase is question shows the leaderboard (phase leaderboard,
\* reveal true, status reveal) and keeps current_index, q_started_at, players
\* and answers
NextFromQuestionReveals ==
    [][(ControlStep("next") /\ Sess.phase = "question") =>
          /\ Sess'.phase = "leaderboard"
          /\ Sess'.reveal = TRUE
          /\ Sess'.status = "reveal"
          /\ Sess'.current_index = Sess.current_index
          /\ Sess'.q_started_at = Sess.q_started_at
          /\ Sess'.players = Sess.players
          /\ Sess'.answers = Sess.answers]_vars

NextFromQuestionWitness ==
    /\ HasSession
    /\ last.op = "quiz_control"
    /\ last.action = "next"
    /\ Sess.phase = "leaderboard"
    /\ Sess.status = "reveal"
    /\ Sess.current_index = 1
    /\ Sess.players # EmptyMap

\* C18: next while phase is leaderboard opens the following question (index + 1,
\* reveal false, status running, phase question, q_started_at now, an empty answer
\* map for it) if there is one, and otherwise finishes the session on the leaderboard
NextFromLeaderboardAdvances ==
    [][(ControlStep("next") /\ Sess.phase = "leaderboard") =>
          LET ci == Sess.current_index + 1
          IN  IF 0 <= ci /\ ci < TotalQ
              THEN /\ Sess'.current_index = ci
                   /\ Sess'.reveal = FALSE
                   /\ Sess'.status = "running"
                   /\ Sess'.phase = "question"
                   /\ Sess'.q_started_at = NowMs
                   /\ StrOf(ci) \in DOMAIN Sess'.answers
                   /\ Sess'.answers[StrOf(ci)] = EmptyMap
              ELSE /\ Sess'.status = "finished"
                   /\ Sess'.phase = "leaderboard"]_vars

NextFromLeaderboardWitness ==
    /\ HasSession
    /\ last.op = "quiz_control"
    /\ last.action = "next"
    /\ Sess.status = "running"
    /\ Sess.phase = "question"
    /\ Sess.current_index = 1
    /\ Sess.q_started_at = NowMs
    /\ now > 0

\* C19: a control request whose action is none of start, next, reveal, end (in any
\* letter case) is rejected and the stored sessions are as before
UnknownActionRejected ==
    [][(/\ now' = now
        /\ last'.op = "quiz_control"
        /\ last'.action \notin {"start", "next", "reveal", "end"}) =>
          /\ last'.code \in {400, 404}
          /\ data'.quiz_sessions = data.quiz_sessions]_vars

UnknownActionWitness ==
    /\ HasSession
    /\ last.op = "quiz_control"
    /\ last.action = "pause"
    /\ last.code = 400
    /\ Sess.status = "running"

\* the step is a submit request for the stored session
SubmitStep ==
    /\ HasSession
    /\ now' = now
    /\ last'.op = "quiz_submit"
    /\ last'.code # 404

\* the player has an answer record for the current question
HasAnswered(sess, pid) ==
    /\ sess.current_index >= 0
    /\ StrOf(sess.current_index) \in DOMAIN sess.answers
    /\ pid \in DOMAIN sess.answers[StrOf(sess.current_index)]

\* C20: a submission by a player who already has an answer record for the current
\* question is rejected, and the player's score and that record stay as the first
\* submission left them; a submission is only accepted from a player without one
DuplicateSubmissionRejected ==
    [][SubmitStep =>
          LET pid == last'.pid
              key == StrOf(Sess.current_index)
          IN  /\ (pid \in DOMAIN Sess.players /\ HasAnswered(Sess, pid)) =>
                    /\ last'.code = 400
                    /\ last'.body = "Already answered"
                    /\ Sess'.players[pid].score = Sess.players[pid].score
                    /\ Sess'.answers[key][pid] = Sess.answers[key][pid]
                    /\ Sess' = Sess
              /\ last'.code = 200 => ~HasAnswered(Sess, pid)]_vars

DuplicateSubmissionWitness ==
    /\ HasSession
    /\ last.op = "quiz_submit"
    /\ last.body = "Already answered"
    /\ last.pid \in DOMAIN Sess.players
    /\ HasAnswered(Sess, last.pid)
    /\ Sess.players[last.pid].score > 0
    /\ Sess.answers[StrOf(Sess.current_index)][last.pid].ts < NowMs

\* C21: an accepted submission, with or without the penalty flag, never leaves the
\* player's score lower than it was
ScoreNeverDecreases ==
    [][(SubmitStep /\ last'.code = 200) =>
          Sess'.players[last'.pid].score >= Sess.players[last'.pid].score]_vars

\* the time limit, the full points and the arrival of a scored answer
ScoredTimeMs == (IF last.question.time_sec = None THEN ScoredQuiz.time_per_question
                 ELSE last.question.time_sec) * 1000
ScoredPointsMax == IF last.question.points = None THEN 1000 ELSE last.question.points
ScoredArrival == last.started + last.steps * TickMs

\* C22: an answer arriving at or after q_started_at + time_sec earns nothing for
\* its correctness, an answer arriving at q_started_at earns points_max x r in full,
\* and without the penalty flag the points awarded lie between 0 and points_max
TimeRatioClamped ==
    last.op = "scored" =>
        /\ (ScoredArrival >= last.started + ScoredTimeMs) =>
                /\ last.points <= 0
                /\ (~last.penalize \/ last.ratio.num > 0) => last.points = 0
        /\ (ScoredArrival = last.started /\ (~last.penalize \/ last.ratio.num > 0)) =>
                last.points = RoundDiv(ScoredPointsMax * last.ratio.num, last.ratio.den)
        /\ ~last.penalize => (0 <= last.points /\ last.points <= ScoredPointsMax)

TimeRatioWitness ==
    /\ last.op = "scored"
    /\ ScoredArrival >= last.started + ScoredTimeMs
    /\ last.ratio = Ratio(1, 1)
    /\ last.question.time_sec = 2
    /\ last.points = 0

\* the length of the longest common prefix of two lists
RECURSIVE LcpLen(_, _)
LcpLen(a, b) ==
    IF a = << >> \/ b = << >> THEN 0
    ELSE IF Head(a) # Head(b) THEN 0
    ELSE 1 + LcpLen(Tail(a), Tail(b))

\* C23: the ratio of an order answer is the length of the longest common prefix of
\* the submission and the key, divided by the length of the key
OrderGradedByPrefix ==
    (last.op = "graded" /\ last.question.type = "order") =>
        last.ratio.num * Len(last.question.order) =
            LcpLen(last.payload.items, last.question.order) * last.ratio.den

OrderPrefixWitness ==
    /\ last.op = "graded"
    /\ last.question.order = << "A", "B", "C" >>
    /\ last.payload.items = << "A", "X", "C" >>
    /\ last.ratio = Ratio(1, 3)

\* C24: the ratio of a match answer is the number of keys whose submitted partner
\* is the partner in the answer key, divided by the number of distinct keys of the
\* answer key and the submission
MatchGradedByPairs ==
    (last.op = "graded" /\ last.question.type = "match") =>
        LET corr == last.question.map
            sub == last.payload.pairs
            keys == (DOMAIN corr) \cup (DOMAIN sub)
            good == {k \in (DOMAIN corr) \cap (DOMAIN sub) : sub[k] = corr[k]}
        IN  last.ratio.num * Cardinality(keys) = Cardinality(good) * last.ratio.den

\* C25: the leaderboard has one entry for every player of the session, with the
\* player's nickname and score, ordered by descending score and, for equal scores,
\* by ascending nickname
BoardSorted ==
    last.op = "board" =>
        LET b == last.board
            ps == last.players
        IN  /\ Len(b) = Cardinality(DOMAIN ps)
            /\ {b[i].pid : i \in 1..Len(b)} = DOMAIN ps
            /\ \A i \in 1..Len(b) :
                    /\ b[i].nickname = ps[b[i].pid].nickname
                    /\ b[i].score = ps[b[i].pid].score
            /\ \A i, j \in 1..Len(b) :
                    i < j =>
                        \/ b[i].score > b[j].score
                        \/ /\ b[i].score = b[j].score
                           /\ NickRank(b[i].nickname) <= NickRank(b[j].nickname)

BoardWitness ==
    /\ last.op = "board"
    /\ Len(last.board) = 3
    /\ last.board[1].score > last.board[2].score
    /\ last.board[2].score = last.board[3].score
    /\ last.board[2].nickname = "ann"
    /\ last.board[3].nickname = "bob"
    /\ last.board[2].pid > last.board[3].pid

\* the assignment has answered, with success
RandomizeSucceeded == last.op = "randomize" /\ last.code = 200

\* a list without a repeated element
NoRepeat(l) == \A i, j \in 1..Len(l) : l[i] = l[j] => i = j

\* the members of all teams, one list
TeamMembers(teams) == MembersOf(teams, {teams[i].id : i \in 1..Len(teams)})

\* C26: whenever the assignment succeeds, the returned judges are exactly
\* judge_count emails, all different
JudgeSeatsFilled ==
    RandomizeSucceeded =>
        /\ Len(last.judges) = data.debate.format.judge_count
        /\ NoRepeat(last.judges)

\* C27: an assignment either returns exactly team_count teams of exactly
\* team_size members each, or fails and leaves the judges, the teams with their
\* members and the reserves of the stored debate as they were
NoPartialTeam ==
    [][last'.op = "randomize" =>
        \/ /\ last'.code = 200
           /\ Len(last'.teams) = data.debate.format.team_count
           /\ \A i \in 1..Len(last'.teams) :
                  Len(last'.teams[i].members) = data.debate.format.team_size
           /\ data'.debate.teams = last'.teams
        \/ /\ last'.code # 200
           /\ last'.teams = << >>
           /\ data'.debate.judges = data.debate.judges
           /\ data'.debate.teams = data.debate.teams
           /\ data'.debate.reserves = data.debate.reserves]_vars

\* the assignment failed because a team could not be filled
NoPartialTeamWitness ==
    /\ last.op = "randomize"
    /\ last.code = 400
    /\ last.msg = "Team has too few members"
    /\ data.debate.teams = InitDebate.teams

\* C28: whenever the assignment succeeds, the judges, the members of all teams
\* and the reserves have no email in common, none holds an email twice, and
\* together they are the eligible sign-ups: those with choice judge, advocate or
\* any whose email is a known member
AssignmentPartitions ==
    RandomizeSucceeded =>
        LET all == last.judges \o TeamMembers(last.teams) \o last.reserves
            d == data.debate
        IN  /\ NoRepeat(all)
            /\ Range(all) = {e \in DOMAIN d.signups :
                                /\ d.signups[e] \in {"judge", "advocate", "any"}
                                /\ member_by_email(e) # {}}
            /\ d.judges = last.judges
            /\ d.teams = last.teams
            /\ d.reserves = last.reserves

\* a success with judges, team members and reserves, and a sign-up left out
AssignmentPartitionsWitness ==
    /\ RandomizeSucceeded
    /\ Len(last.judges) > 0
    /\ Len(TeamMembers(last.teams)) > 0
    /\ Len(last.reserves) > 0
    /\ \E e \in DOMAIN data.debate.signups :
           e \notin Range(last.judges \o TeamMembers(last.teams) \o last.reserves)

\* C29: with fewer eligible sign-ups than team_count * team_size + judge_count,
\* or with fewer advocates left after the judge seats are filled than
\* team_count * team_size, the assignment fails and the stored debate is unchanged
ShortageRejected ==
    [][last'.op = "randomize" =>
        LET d == data.debate
            short == \/ Cardinality(all_eligible(d)) < total_slots(d) + d.format.judge_count
                     \/ advocates_available(d) < total_slots(d)
        IN  /\ short => (last'.code = 400 /\ data' = data)
            /\ last'.code = 200 =>
                   Cardinality(advocates_pool(d) \ Range(last'.judges)) >= total_slots(d)
            /\ last'.code # 200 => data' = data]_vars

\* enough sign-ups in all, too few advocates once the judges are seated
ShortageRejectedWitness ==
    /\ last.op = "randomize"
    /\ last.code = 400
    /\ last.msg = "Insufficient advocates after judge selection"
    /\ Cardinality(all_eligible(data.debate))
           >= total_slots(data.debate) + data.debate.format.judge_count

\* C30: whatever the random draws, when of two eligible sign-ups with the same
\* choice and the same studio one is seated (judge or team member) and the other
\* becomes a reserve, the seated one has at most as many past participations
FewerParticipationsPreferred ==
    [][(last'.op = "randomize" /\ last'.code = 200) =>
        LET d == data.debate
            seated == Range(last'.judges) \cup Range(TeamMembers(last'.teams))
        IN  \A a \in seated, b \in Range(last'.reserves) :
                (d.signups[a] = d.signups[b] /\ studio_of(a) = studio_of(b)) =>
                    participations_count(data, a) <= participations_count(data, b)]_vars

\* C31: when at least judge_count eligible sign-ups chose exactly judge, a
\* successful assignment seats no sign-up that chose any as a judge
JudgeOnlyPreferred ==
    (RandomizeSucceeded
     /\ Cardinality(judges_only(data.debate)) >= data.debate.format.judge_count)
        => \A i \in 1..Len(last.judges) : data.debate.signups[last.judges[i]] # "any"

\* the ids of a list of teams are pairwise different
DistinctIds(teams) == \A i, j \in 1..Len(teams) : teams[i].id = teams[j].id => i = j

\* C32: when the teams of the debate have pairwise different ids before a
\* successful assignment, they have pairwise different ids after it
TeamIdsStayUnique ==
    [][(last'.op = "randomize" /\ last'.code = 200 /\ DistinctIds(data.debate.teams))
        => DistinctIds(data'.debate.teams)]_vars

\* C33: whatever live_stop calls and start/stop repetitions a debate has seen,
\* the points ledger holds at most one entry for a member, a criterion and the
\* debate
NoDoubleAward ==
    LET entries == data.points_entries
    IN  \A i, j \in 1..Len(entries) :
            (/\ entries[i].member_email = entries[j].member_email
             /\ entries[i].criteria = entries[j].criteria
             /\ entries[i].debate_id = entries[j].debate_id) => i = j

\* the ledger holds an entry of this member and criterion
Awarded(email, criteria) ==
    \E i \in 1..Len(data.points_entries) :
        /\ data.points_entries[i].member_email = email
        /\ data.points_entries[i].criteria = criteria

\* the debate was stopped twice with a different winner: m1 holds the entry of a
\* participant from one stop and the badge of a winner from another
NoDoubleAwardWitness ==
    /\ last.op = "live_stop"
    /\ Awarded("m1", "debate_participant")
    /\ Awarded("m1", "debate_winner")
    /\ Awarded("j1", "debate_participant")
    /\ Len(data.points_entries) >= 3

RECURSIVE RecordPoints(_, _, _)
\* the sum of the points of a player's answer records over these question indexes
RecordPoints(answers, pid, keys) ==
    IF keys = {} THEN 0
    ELSE LET k == CHOOSE x \in keys : TRUE
         IN  (IF pid \in DOMAIN answers[k] THEN answers[k][pid].points ELSE 0)
             + RecordPoints(answers, pid, keys \ {k})

\* C34: after every join, control and submit request each player's score is the
\* sum of the points of the player's answer records over all question indexes,
\* and every answer record stored before the request is still there, unchanged
ScoreIsSumOfRecords ==
    [][(HasSession /\ last'.op \in {"quiz_join", "quiz_control", "quiz_submit"})
        => LET s == data.quiz_sessions[1]
               t == data'.quiz_sessions[1]
           IN  /\ \A pid \in DOMAIN t.players :
                      t.players[pid].score = RecordPoints(t.answers, pid, DOMAIN t.answers)
               /\ \A k \in DOMAIN s.answers :
                      \A pid \in DOMAIN s.answers[k] :
                          /\ k \in DOMAIN t.answers
                          /\ pid \in DOMAIN t.answers[k]
                          /\ t.answers[k][pid] = s.answers[k][pid]]_vars

\* C35: on a session still waiting with current_index -1, the control actions
\* next, reveal and end leave current_index below 0 and never set status running
OnlyStartActivates ==
    [][((ControlStep("next") \/ ControlStep("reveal") \/ ControlStep("end"))
        /\ Sess.status = "waiting" /\ Sess.current_index = -1)
        => (Sess'.current_index < 0 /\ Sess'.status # "running")]_vars

\* C36: once the status of a session is finished, a submit request changes no
\* player's score and adds no answer record
FinishedSessionClosed ==
    [][(SubmitStep /\ Sess.status = "finished")
        => (Sess'.players = Sess.players /\ Sess'.answers = Sess.answers)]_vars

\* the step is the save of submit request r, accepted
SubmitSaves(r) ==
    /\ r \in DOMAIN req
    /\ req[r].pc = "loaded"
    /\ req[r].kind = "submit"
    /\ req'[r].pc = "done"
    /\ req'[r].code = 200

\* C37: when a submit request saves after a next that loaded later has advanced
\* current_index and saved, the stored session keeps the advanced current_index,
\* phase and status
ControlSurvivesSubmit ==
    [][\A r \in ReqIds :
        (SubmitSaves(r)
         /\ Sess.current_index > req[r].snap.quiz_sessions[1].current_index)
        => /\ Sess'.current_index = Sess.current_index
           /\ Sess'.phase = Sess.phase
           /\ Sess'.status = Sess.status]_vars

\* C38: when two submit requests of different players for the same question have
\* both been accepted, however their loads and saves interleaved, the stored
\* session holds both answer records and each player's score holds the points
\* awarded
BothSubmissionsKept ==
    \A r1, r2 \in DOMAIN req :
        (/\ r1 # r2
         /\ req[r1].kind = "submit" /\ req[r2].kind = "submit"
         /\ req[r1].pc = "done" /\ req[r2].pc = "done"
         /\ req[r1].code = 200 /\ req[r2].code = 200
         /\ req[r1].pid # req[r2].pid
         /\ req[r1].snap.quiz_sessions[1].current_index
                = req[r2].snap.quiz_sessions[1].current_index
         /\ Sess.current_index = req[r1].snap.quiz_sessions[1].current_index)
        => LET k == StrOf(Sess.current_index)
           IN  /\ k \in DOMAIN Sess.answers
               /\ \A r \in {r1, r2} :
                      /\ req[r].pid \in DOMAIN Sess.answers[k]
                      /\ Sess.answers[k][req[r].pid].points = req[r].points
                      /\ Sess.players[req[r].pid].score = req[r].points

\* the teams with the largest grand total of the score aggregation
TopOfTotals(debate) ==
    LET totals == compute_totals(debate)
    IN  {t \in DOMAIN totals : \A u \in DOMAIN totals : totals[u] <= totals[t]}

\* C39: the winning teams the reward attribution determines for a stopped debate
\* are the teams with the largest grand total of the score aggregation
WinnersMatchTotals ==
    (last.op = "live_stop" /\ data.debate.status = "finished")
        => WinningTeamIds(data.debate) = TopOfTotals(data.debate)


\* C40: a poll of the quiz state never exposes the answer key before the reveal:
\* when the payload's reveal is false its question has none of correct, order
\* and map; and the poll leaves the stored document as it was
StateHidesAnswerKey ==
    [][last'.op = "quiz_state" =>
            /\ data' = data
            /\ (last'.code = 200 /\ ~last'.body.reveal) =>
                    DOMAIN last'.body.question \cap {"correct", "order", "map"} = {}]_vars

\* a poll answered with a question that is not revealed yet, of a quiz whose
\* stored question carries its answer key
StateHidesAnswerKeyWitness ==
    /\ last.op = "quiz_state"
    /\ last.code = 200
    /\ ~last.body.reveal
    /\ last.body.current_index = 0
    /\ DOMAIN last.body.question = {"type", "points", "time_sec"}
    /\ QuizOf(data.quiz_sessions[1].quiz_id).questions[1].correct = "a"
    /\ data.quiz_sessions[1].players # EmptyMap

====
